---- MODULE Spec2Model ----
(***************************************************************************)
(* AgentLog API (index.js, v2.1): the span ledger (tasks table), the       *)
(* key-hash accounts, the client task API and the two proxy endpoints with *)
(* their streaming relays.                                                 *)
(*                                                                         *)
(* Conventions of the model                                                *)
(*   - a credential or a model name is a sequence of one-character         *)
(*     strings, so that startsWith / includes are computed, not assumed;   *)
(*   - so is a prompt; completion texts are strings (\o is JavaScript's   *)
(*     +);                                                                 *)
(*   - SQL NULL is NULLS for text columns, <<>> for character-sequence     *)
(*     columns and NULLID for id columns;                                  *)
(*   - crypto.randomUUID() is a fresh id: the next row index of the table; *)
(*   - timestamps and durations are not modelled.                          *)
(***************************************************************************)
EXTENDS Integers, Sequences, FiniteSets, TLC

VARIABLES
    accounts,   \* accounts table: sequence of rows, in insertion order
    tasks,      \* tasks table (spans): sequence of rows, in insertion order
    calls,      \* in-flight and finished proxy handlers, keyed by task id
    resp,       \* the last response sent by a synchronous handler
    ledger,     \* history: per task, the terminal writes applied to its row
    issued,     \* history: the <<key_hash, account id>> pairs handed to callers
    prompt_templates  \* prompt_templates table: sequence of rows, in insertion order

vars == <<accounts, tasks, calls, resp, ledger, issued, prompt_templates>>

-----------------------------------------------------------------------------
(* Bounds *)

MaxTasks == 2

\* proxy calls started in a behaviour of SpecProxy
MaxCalls == 1

\* lines an upstream sends to one call in a behaviour of SpecProxy
MaxReads == 1

\* lines an upstream sends in a behaviour of SpecStream
MaxFrames == 3

\* events an upstream sends in a behaviour of SpecRelay
MaxEvents == 5

\* spans stored in a behaviour of SpecTrace
MaxSpans == 3

\* replays requested in a behaviour of SpecReplay
MaxReplays == 1

\* largest token count an upstream reports in a behaviour of SpecCost
MaxTokens == 2

\* messages in a request of SpecConvert
MaxTurns == 2

-----------------------------------------------------------------------------
(* Values *)

NULLS == "<null>"

NULLID == 0

\* id of the row of api_keys created at startup (lines 114-123); account ids
\* are 1, 2, ..., so the two UUID spaces stay disjoint
ApiKeyId == 100

Statuses == {"pending", "running", "success", "failed", "slow"}

TerminalStatuses == {"success", "failed", "slow"}

LegacyKey == <<"a", "g", "e", "n", "t", "l", "o", "g", "_", "1">>

KeyOpenAI == <<"s", "k", "-", "1">>

KeyAnthropic == <<"s", "k", "-", "a", "n", "t", "-", "1">>

KeyGoogle == <<"A", "I", "z", "a", "1">>

KeyXai == <<"x", "a", "i", "-", "1">>

KeyUnknown == <<"z", "z", "1">>

ProviderKeys == {KeyOpenAI, KeyAnthropic, KeyGoogle, KeyXai, KeyUnknown}

\* credentials at the edges of the prefix tests
KeyAntBare == <<"s", "k", "-", "a", "n", "t">>

KeySkBare == <<"s", "k", "-">>

AllKeys == <<LegacyKey, KeyOpenAI, KeyAnthropic, KeyGoogle, KeyXai, KeyUnknown, KeyAntBare, KeySkBare>>

ModelGpt == <<"g", "p", "t", "-", "4">>

ModelClaude == <<"c", "l", "a", "u", "d", "e", "-", "3">>

ModelRouted == <<"m", "/", "x">>

\* String.prototype.startsWith
StartsWith(s, p) == Len(s) >= Len(p) /\ SubSeq(s, 1, Len(p)) = p

\* String.prototype.includes
Includes(s, p) == \E i \in 1..(Len(s) - Len(p) + 1) : SubSeq(s, i, i + Len(p) - 1) = p

-----------------------------------------------------------------------------
(* Helpers (lines 128-185) *)

\* the prefix tests without the exclusion of line 132
detectProviderFromKeyOverlapping(key) ==
    IF key = <<>> THEN NULLS
    ELSE IF StartsWith(key, <<"s", "k", "-">>) THEN "openai"
    ELSE IF StartsWith(key, <<"s", "k", "-", "a", "n", "t", "-">>) THEN "anthropic"
    ELSE IF StartsWith(key, <<"A", "I", "z", "a">>) THEN "google"
    ELSE IF StartsWith(key, <<"x", "a", "i", "-">>) THEN "xai"
    ELSE NULLS

detectProviderFromKey(key) ==
    IF key = <<>> THEN NULLS
    ELSE IF StartsWith(key, <<"s", "k", "-">>) /\ ~StartsWith(key, <<"s", "k", "-", "a", "n", "t", "-">>) THEN "openai"
    ELSE IF StartsWith(key, <<"s", "k", "-", "a", "n", "t", "-">>) THEN "anthropic"
    ELSE IF StartsWith(key, <<"A", "I", "z", "a">>) THEN "google"
    ELSE IF StartsWith(key, <<"x", "a", "i", "-">>) THEN "xai"
    ELSE NULLS

UpperCase ==
    <<"A", "B", "C", "D", "E", "F", "G", "H", "I", "J", "K", "L", "M",
      "N", "O", "P", "Q", "R", "S", "T", "U", "V", "W", "X", "Y", "Z">>

LowerCase ==
    <<"a", "b", "c", "d", "e", "f", "g", "h", "i", "j", "k", "l", "m",
      "n", "o", "p", "q", "r", "s", "t", "u", "v", "w", "x", "y", "z">>

\* String.prototype.toLowerCase on the letters A-Z
toLowerCase(text) ==
    [i \in 1..Len(text) |->
        IF \E k \in 1..Len(UpperCase) : UpperCase[k] = text[i]
        THEN LowerCase[CHOOSE k \in 1..Len(UpperCase) : UpperCase[k] = text[i]]
        ELSE text[i]]

\* detectProviderFromModel (lines 147-156) for a model that is a string or
\* missing; on any other truthy value line 149 throws
detectProviderFromModel(model) ==
    LET lower == toLowerCase(model) IN
    IF model = <<>> THEN "openai"
    ELSE IF StartsWith(lower, <<"g", "p", "t", "-">>) \/ StartsWith(lower, <<"o", "1">>)
            \/ Includes(lower, <<"o", "p", "e", "n", "a", "i">>) THEN "openai"
    ELSE IF StartsWith(lower, <<"c", "l", "a", "u", "d", "e", "-">>) THEN "anthropic"
    ELSE IF StartsWith(lower, <<"g", "e", "m", "i", "n", "i", "-">>) THEN "google"
    ELSE IF StartsWith(lower, <<"g", "r", "o", "k", "-">>) THEN "xai"
    ELSE IF Includes(lower, <<"/">>) THEN "openrouter"
    ELSE "openai"

\* SHA-256 hex digest: an injective map from credentials to opaque digests,
\* none of which is a credential
KeyIndex(key) == CHOOSE i \in 1..Len(AllKeys) : AllKeys[i] = key

DigestNames == <<"d1", "d2", "d3", "d4", "d5", "d6", "d7", "d8">>

\* the credential kept as it is
hashKeyRaw(key) == key

hashKey(key) == <<"sha256", DigestNames[KeyIndex(key)]>>

\* the rows of accounts with the given key_hash
AccountRowsOf(accts, keyHash) == {i \in 1..Len(accts) : accts[i].key_hash = keyHash}

\* a SELECT that finds no row
SelectAccountNever(accts, keyHash) == NULLID

\* SELECT * FROM accounts WHERE key_hash = ?  (.get(): the first row, or none)
SelectAccount(accts, keyHash) ==
    IF AccountRowsOf(accts, keyHash) = {} THEN NULLID
    ELSE CHOOSE i \in AccountRowsOf(accts, keyHash) : \A j \in AccountRowsOf(accts, keyHash) : i <= j

\* getOrCreateAccount: the table after the call and the id it returns
getOrCreateAccount(accts, keyHash, provider) ==
    IF SelectAccount(accts, keyHash) = NULLID
    THEN [accounts |-> Append(accts, [id |-> Len(accts) + 1, key_hash |-> keyHash, provider |-> provider]),
          id |-> Len(accts) + 1]
    ELSE [accounts |-> accts, id |-> accts[SelectAccount(accts, keyHash)].id]

-----------------------------------------------------------------------------
(* Middleware (lines 190-234) *)

\* an Authorization header: absent, or 'Bearer ' followed by a key
NoAuth == [bearer |-> FALSE, key |-> <<>>]

Bearer(key) == [bearer |-> TRUE, key |-> key]

\* validateApiKey: the outcome, the request fields it sets, and the accounts
\* table after it (api_keys.last_used_at is a timestamp, not modelled)
validateApiKey(accts, auth) ==
    IF ~auth.bearer
    THEN [ok |-> FALSE, authType |-> "none", apiKeyId |-> NULLID, accountId |-> NULLID,
          providerKey |-> <<>>, accounts |-> accts]
    ELSE IF auth.key = LegacyKey
    THEN [ok |-> TRUE, authType |-> "legacy", apiKeyId |-> ApiKeyId, accountId |-> NULLID,
          providerKey |-> <<>>, accounts |-> accts]
    ELSE IF detectProviderFromKey(auth.key) # NULLS
    THEN [ok |-> TRUE, authType |-> "provider", apiKeyId |-> NULLID,
          accountId |-> getOrCreateAccount(accts, hashKey(auth.key), detectProviderFromKey(auth.key)).id,
          providerKey |-> auth.key,
          accounts |-> getOrCreateAccount(accts, hashKey(auth.key), detectProviderFromKey(auth.key)).accounts]
    ELSE [ok |-> FALSE, authType |-> "none", apiKeyId |-> NULLID, accountId |-> NULLID,
          providerKey |-> <<>>, accounts |-> accts]

\* the account the middleware handed to the request, if any
IssuedBy(auth, req) ==
    IF req.authType = "provider" THEN {<<hashKey(auth.key), req.accountId>>} ELSE {}

getAccountId(req) ==
    IF req.authType = "provider" /\ req.accountId # NULLID THEN req.accountId
    ELSE IF req.authType = "legacy" /\ req.apiKeyId # NULLID THEN req.apiKeyId
    ELSE NULLID

\* an equality under which NULL equals NULL
SqlEqNullsEqual(column, param) == column = param

\* SQL equality: a comparison with NULL is never true
SqlEq(column, param) == column # NULLID /\ param # NULLID /\ column = param

-----------------------------------------------------------------------------
(* Cost (lines 838-873, 1173-1213) *)

\* A JavaScript number that is a cost: NaN, or a value counted in units of
\* 10^-10 dollar, in which every product of the cost functions is a whole
\* number.  The arithmetic is exact; the doubles of the source round each
\* operation to the nearest double, which keeps the order of the results.
Num(v) == [nan |-> FALSE, v |-> v]

NaN == [nan |-> TRUE, v |-> 0]

\* a <= b on JavaScript numbers: false when either is NaN
NumLeq(a, b) == ~a.nan /\ ~b.nan /\ a.v <= b.v

\* MODEL_COSTS in key order; the rates are dollars per 1000 tokens, here in
\* units of 10^-6 dollar
MODEL_COSTS == <<
    [key |-> <<"g", "p", "t", "-", "4">>,
     input |-> 30000, output |-> 60000],
    [key |-> <<"g", "p", "t", "-", "4", "-", "3", "2", "k">>,
     input |-> 60000, output |-> 120000],
    [key |-> <<"g", "p", "t", "-", "4", "-", "t", "u", "r", "b", "o">>,
     input |-> 10000, output |-> 30000],
    [key |-> <<"g", "p", "t", "-", "4", "o">>,
     input |-> 5000, output |-> 15000],
    [key |-> <<"g", "p", "t", "-", "4", "o", "-", "m", "i", "n", "i">>,
     input |-> 150, output |-> 600],
    [key |-> <<"g", "p", "t", "-", "3", ".", "5", "-", "t", "u", "r", "b", "o">>,
     input |-> 500, output |-> 1500],
    [key |-> <<"o", "1", "-", "p", "r", "e", "v", "i", "e", "w">>,
     input |-> 15000, output |-> 60000],
    [key |-> <<"o", "1", "-", "m", "i", "n", "i">>,
     input |-> 3000, output |-> 12000],
    [key |-> <<"o", "1">>,
     input |-> 15000, output |-> 60000],
    [key |-> <<"c", "l", "a", "u", "d", "e", "-", "3", "-", "5", "-", "s", "o", "n", "n", "e", "t", "-", "2", "0", "2", "4", "0", "6", "2", "0">>,
     input |-> 3000, output |-> 15000],
    [key |-> <<"c", "l", "a", "u", "d", "e", "-", "3", "-", "5", "-", "s", "o", "n", "n", "e", "t", "-", "2", "0", "2", "4", "1", "0", "2", "2">>,
     input |-> 3000, output |-> 15000],
    [key |-> <<"c", "l", "a", "u", "d", "e", "-", "3", "-", "5", "-", "h", "a", "i", "k", "u", "-", "2", "0", "2", "4", "1", "0", "2", "2">>,
     input |-> 1000, output |-> 5000],
    [key |-> <<"c", "l", "a", "u", "d", "e", "-", "3", "-", "o", "p", "u", "s", "-", "2", "0", "2", "4", "0", "2", "2", "9">>,
     input |-> 15000, output |-> 75000],
    [key |-> <<"c", "l", "a", "u", "d", "e", "-", "3", "-", "s", "o", "n", "n", "e", "t", "-", "2", "0", "2", "4", "0", "2", "2", "9">>,
     input |-> 3000, output |-> 15000],
    [key |-> <<"c", "l", "a", "u", "d", "e", "-", "3", "-", "h", "a", "i", "k", "u", "-", "2", "0", "2", "4", "0", "3", "0", "7">>,
     input |-> 250, output |-> 1250],
    [key |-> <<"g", "e", "m", "i", "n", "i", "-", "p", "r", "o">>,
     input |-> 250, output |-> 500],
    [key |-> <<"g", "e", "m", "i", "n", "i", "-", "1", ".", "5", "-", "p", "r", "o">>,
     input |-> 1250, output |-> 5000],
    [key |-> <<"g", "e", "m", "i", "n", "i", "-", "1", ".", "5", "-", "f", "l", "a", "s", "h">>,
     input |-> 75, output |-> 300],
    [key |-> <<"g", "r", "o", "k", "-", "b", "e", "t", "a">>,
     input |-> 5000, output |-> 15000],
    [key |-> <<"g", "r", "o", "k", "-", "2">>,
     input |-> 2000, output |-> 10000]>>

\* ANTHROPIC_COSTS in key order; the rates are dollars per million tokens,
\* here in cents
ANTHROPIC_COSTS == <<
    [key |-> <<"c", "l", "a", "u", "d", "e", "-", "o", "p", "u", "s", "-", "4">>,
     input |-> 1500, output |-> 7500],
    [key |-> <<"c", "l", "a", "u", "d", "e", "-", "o", "p", "u", "s", "-", "4", "-", "2", "0", "2", "5", "0", "5", "1", "4">>,
     input |-> 1500, output |-> 7500],
    [key |-> <<"c", "l", "a", "u", "d", "e", "-", "s", "o", "n", "n", "e", "t", "-", "4">>,
     input |-> 300, output |-> 1500],
    [key |-> <<"c", "l", "a", "u", "d", "e", "-", "s", "o", "n", "n", "e", "t", "-", "4", "-", "2", "0", "2", "5", "0", "5", "1", "4">>,
     input |-> 300, output |-> 1500],
    [key |-> <<"c", "l", "a", "u", "d", "e", "-", "3", "-", "7", "-", "s", "o", "n", "n", "e", "t">>,
     input |-> 300, output |-> 1500],
    [key |-> <<"c", "l", "a", "u", "d", "e", "-", "3", "-", "7", "-", "s", "o", "n", "n", "e", "t", "-", "2", "0", "2", "5", "0", "2", "1", "9">>,
     input |-> 300, output |-> 1500],
    [key |-> <<"c", "l", "a", "u", "d", "e", "-", "3", "-", "5", "-", "s", "o", "n", "n", "e", "t">>,
     input |-> 300, output |-> 1500],
    [key |-> <<"c", "l", "a", "u", "d", "e", "-", "3", "-", "5", "-", "s", "o", "n", "n", "e", "t", "-", "2", "0", "2", "4", "0", "6", "2", "0">>,
     input |-> 300, output |-> 1500],
    [key |-> <<"c", "l", "a", "u", "d", "e", "-", "3", "-", "5", "-", "s", "o", "n", "n", "e", "t", "-", "2", "0", "2", "4", "1", "0", "2", "2">>,
     input |-> 300, output |-> 1500],
    [key |-> <<"c", "l", "a", "u", "d", "e", "-", "3", "-", "5", "-", "h", "a", "i", "k", "u">>,
     input |-> 80, output |-> 400],
    [key |-> <<"c", "l", "a", "u", "d", "e", "-", "3", "-", "5", "-", "h", "a", "i", "k", "u", "-", "2", "0", "2", "4", "1", "0", "2", "2">>,
     input |-> 80, output |-> 400],
    [key |-> <<"c", "l", "a", "u", "d", "e", "-", "3", "-", "o", "p", "u", "s">>,
     input |-> 1500, output |-> 7500],
    [key |-> <<"c", "l", "a", "u", "d", "e", "-", "3", "-", "o", "p", "u", "s", "-", "2", "0", "2", "4", "0", "2", "2", "9">>,
     input |-> 1500, output |-> 7500],
    [key |-> <<"c", "l", "a", "u", "d", "e", "-", "3", "-", "s", "o", "n", "n", "e", "t">>,
     input |-> 300, output |-> 1500],
    [key |-> <<"c", "l", "a", "u", "d", "e", "-", "3", "-", "s", "o", "n", "n", "e", "t", "-", "2", "0", "2", "4", "0", "2", "2", "9">>,
     input |-> 300, output |-> 1500],
    [key |-> <<"c", "l", "a", "u", "d", "e", "-", "3", "-", "h", "a", "i", "k", "u">>,
     input |-> 25, output |-> 125],
    [key |-> <<"c", "l", "a", "u", "d", "e", "-", "3", "-", "h", "a", "i", "k", "u", "-", "2", "0", "2", "4", "0", "3", "0", "7">>,
     input |-> 25, output |-> 125]>>

\* names every object inherits from Object.prototype (three of them): a
\* lookup table[name] finds the inherited property, which is truthy and has
\* no input or output
InheritedNames ==
    {<<"c", "o", "n", "s", "t", "r", "u", "c", "t", "o", "r">>,
     <<"t", "o", "S", "t", "r", "i", "n", "g">>,
     <<"_", "_", "p", "r", "o", "t", "o", "_", "_">>}

\* Object.keys(table).find(pred): the index of the first key that satisfies
\* pred, 0 if none
FirstKey(table, Pred(_)) ==
    IF \E i \in 1..Len(table) : Pred(table[i].key)
    THEN CHOOSE i \in 1..Len(table) : Pred(table[i].key) /\ \A j \in 1..(i - 1) : ~Pred(table[j].key)
    ELSE 0

\* table[model] for a key of the table itself: its index, 0 if none
OwnKey(table, model) ==
    IF \E i \in 1..Len(table) : table[i].key = model
    THEN CHOOSE i \in 1..Len(table) : table[i].key = model
    ELSE 0

\* calculateCost (lines 862-873)
calculateCost(model, inputTokens, outputTokens) ==
    LET Matches(key) == Includes(model, key) \/ Includes(key, model)
        own == OwnKey(MODEL_COSTS, model)
        matched == FirstKey(MODEL_COSTS, Matches)
    IN
    IF own # 0
    THEN Num(10 * (inputTokens * MODEL_COSTS[own].input + outputTokens * MODEL_COSTS[own].output))
    ELSE IF model \in InheritedNames THEN NaN
    ELSE IF matched # 0
    THEN Num(10 * (inputTokens * MODEL_COSTS[matched].input + outputTokens * MODEL_COSTS[matched].output))
    ELSE Num(0)

IsDigit(c) == c \in {"0", "1", "2", "3", "4", "5", "6", "7", "8", "9"}

\* model.replace(/-\d{8}$/, '')
StripDate(model) ==
    IF /\ Len(model) >= 9
       /\ model[Len(model) - 8] = "-"
       /\ \A k \in (Len(model) - 7)..Len(model) : IsDigit(model[k])
    THEN SubSeq(model, 1, Len(model) - 9)
    ELSE model

\* a usage object with its four counts
Usage(inputTokens, outputTokens, cacheRead, cacheWrite) ==
    [input_tokens |-> inputTokens, output_tokens |-> outputTokens,
     cache_read_input_tokens |-> cacheRead, cache_creation_input_tokens |-> cacheWrite]

\* calculateAnthropicCost (lines 1193-1213) for a usage object that is there;
\* the default rates are those of sonnet
calculateAnthropicCost(model, usage) ==
    LET Matches(key) == Includes(model, key) \/ Includes(key, StripDate(model))
        own == OwnKey(ANTHROPIC_COSTS, model)
        matched == FirstKey(ANTHROPIC_COSTS, Matches)
        costs == IF own # 0 THEN ANTHROPIC_COSTS[own]
                 ELSE IF matched # 0 THEN ANTHROPIC_COSTS[matched]
                 ELSE [key |-> <<>>, input |-> 300, output |-> 1500]
    IN
    IF own = 0 /\ model \in InheritedNames THEN NaN
    ELSE Num(100 * usage.input_tokens * costs.input + 100 * usage.output_tokens * costs.output
             + 10 * usage.cache_read_input_tokens * costs.input
             + 125 * usage.cache_creation_input_tokens * costs.input)

-----------------------------------------------------------------------------
(* The tasks table (lines 58-88) *)

\* a row as INSERT leaves it when only these columns are given; created_at is
\* new Date().toISOString() at the INSERT, on a clock that ticks once per INSERT
\* a row stored as finished whatever status the INSERT names
TaskRowFinished(apiKeyId, accountId, status, model, prompt, parentId, originalRequest, traceId) ==
    [api_key_id |-> apiKeyId, account_id |-> accountId, status |-> "success",
     error |-> <<>>, model |-> model, prompt |-> prompt, completion |-> NULLS,
     tokens_in |-> 0, tokens_out |-> 0, parent_id |-> parentId,
     original_request |-> originalRequest, trace_id |-> traceId, cost |-> Num(0),
     duration_ms |-> 0, created_at |-> Len(tasks) + 1, provider |-> "custom"]

TaskRow(apiKeyId, accountId, status, model, prompt, parentId, originalRequest, traceId) ==
    [api_key_id |-> apiKeyId, account_id |-> accountId, status |-> status,
     error |-> <<>>, model |-> model, prompt |-> prompt, completion |-> NULLS,
     tokens_in |-> 0, tokens_out |-> 0, parent_id |-> parentId,
     original_request |-> originalRequest, trace_id |-> traceId, cost |-> Num(0),
     duration_ms |-> 0, created_at |-> Len(tasks) + 1, provider |-> "custom"]

\* the provider column of an INSERT that names it (lines 986, 1287, 819,
\* 1729); the other INSERTs leave 'custom' (lines 342, 395)
WithProvider(row, provider) == [row EXCEPT !.provider = provider]

\* a trace id taken from the latest row stored
TraceIdOfLastRow(rows) == IF rows = <<>> THEN 1001 ELSE rows[Len(rows)].trace_id

\* crypto.randomUUID() as the trace id of the row about to be inserted: a
\* value no caller has sent and no other row carries
FreshTraceId(rows) == 1000 + Len(rows) + 1

\* trace_id || crypto.randomUUID()
TraceIdOr(traceId, rows) == IF traceId # NULLID THEN traceId ELSE FreshTraceId(rows)

TaskIds == 1..Len(tasks)

\* JavaScript's  x || null  on a text field: '' and undefined both give NULL
OrNull(text) == IF text = "" THEN NULLS ELSE text

-----------------------------------------------------------------------------
(* Upstream server-sent-event lines *)

\* One line of an upstream event stream.  k is what the line holds:
\*   message_start        data: {"type":"message_start","message":{"usage":{"input_tokens":n}}}
\*                        (n = Absent: the event carries no usage)
\*   content_block_delta  data: {"type":"content_block_delta","delta":{"text":text}}
\*                        (text = NULLS: a delta without text, e.g. input_json_delta)
\*   message_delta        data: {"type":"message_delta","usage":{"output_tokens":n}}
\*                        (n = Absent: the event carries no usage)
\*   message_stop         data: {"type":"message_stop"}
\*   chunk                data: {"choices":[{"delta":{"content":text}}]}
\*   done                 data: [DONE]
\*   notjson              data: followed by text that JSON.parse rejects
\*   jsonnull             data: null    (parses; reading a property of it throws)
\*   event                event: ...    (a line that is not a data line)
\*   blank                the empty line between two events
Absent == 0 - 1

Frame(k, text, n) == [k |-> k, text |-> text, n |-> n]

DoneFrame == Frame("done", "", 0)

\* line.startsWith('data: ')
IsDataLine(f) == f.k \notin {"event", "blank"}

\* JSON.parse(data) returns
ParsesAsJson(f) == f.k \notin {"notjson", "done"}

\* JavaScript's  n || 0  on a count that may be absent
OrZero(n) == IF n = Absent THEN 0 ELSE n

\* JavaScript truthiness of an optional text
Truthy(text) == text # NULLS /\ text # ""

\* the canonical chunk of line 1047 and the terminal chunk of line 1050
Chunk(text) == Frame("chunk", text, 0)

StopChunk == Frame("chunk_stop", "", 0)

\* per-request accumulator of a streaming loop
NewAcc == [tokensIn |-> 0, tokensOut |-> 0, completionText |-> "", out |-> <<>>]

\* the loop body below with the text delta assigned instead of appended
AnthropicChatLineAssign(acc, f) ==
    IF ~IsDataLine(f) THEN acc
    ELSE IF f.k = "done" THEN [acc EXCEPT !.out = Append(@, DoneFrame)]
    ELSE IF ~ParsesAsJson(f) \/ f.k = "jsonnull" THEN acc
    ELSE IF f.k = "message_start" THEN [acc EXCEPT !.tokensIn = OrZero(f.n)]
    ELSE IF f.k = "message_delta" THEN [acc EXCEPT !.tokensOut = OrZero(f.n)]
    ELSE IF f.k = "content_block_delta" /\ Truthy(f.text)
         THEN [acc EXCEPT !.completionText = f.text, !.out = Append(@, Chunk(f.text))]
    ELSE IF f.k = "message_stop" THEN [acc EXCEPT !.out = @ \o <<StopChunk, DoneFrame>>]
    ELSE acc

\* body of the for loop of the Anthropic branch of /v1/chat/completions
\* (lines 1037-1055) for one line
AnthropicChatLine(acc, f) ==
    IF ~IsDataLine(f) THEN acc
    ELSE IF f.k = "done" THEN [acc EXCEPT !.out = Append(@, DoneFrame)]
    ELSE IF ~ParsesAsJson(f) \/ f.k = "jsonnull" THEN acc
    ELSE LET a1 == IF f.k = "message_start" THEN [acc EXCEPT !.tokensIn = OrZero(f.n)] ELSE acc
             a2 == IF f.k = "message_delta" THEN [a1 EXCEPT !.tokensOut = OrZero(f.n)] ELSE a1
             a3 == IF f.k = "content_block_delta" /\ Truthy(f.text)
                   THEN [a2 EXCEPT !.completionText = @ \o f.text, !.out = Append(@, Chunk(f.text))]
                   ELSE a2
         IN IF f.k = "message_stop" THEN [a3 EXCEPT !.out = @ \o <<StopChunk, DoneFrame>>] ELSE a3

\* the loop body below forwarding only the lines whose payload parses
OpenAILineParsedOnly(acc, f) ==
    IF ~IsDataLine(f) \/ ~ParsesAsJson(f) THEN acc
    ELSE LET a1 == [acc EXCEPT !.out = Append(@, f)]
         IN IF f.k = "chunk" /\ Truthy(f.text)
            THEN [a1 EXCEPT !.completionText = @ \o f.text]
            ELSE a1

\* body of the for loop of the OpenAI-compatible branch (lines 1112-1124)
OpenAILine(acc, f) ==
    IF ~IsDataLine(f) THEN acc
    ELSE LET a1 == [acc EXCEPT !.out = Append(@, f)]
         IN IF f.k = "chunk" /\ Truthy(f.text)
            THEN [a1 EXCEPT !.completionText = @ \o f.text]
            ELSE a1

\* body of the for loop of /v1/messages (lines 1360-1400): the raw line is
\* forwarded, then parsed for tracking
MessagesLine(acc, f) ==
    LET a1 == [acc EXCEPT !.out = Append(@, f)]
    IN IF ~IsDataLine(f) \/ ~ParsesAsJson(f) \/ f.k = "jsonnull" THEN a1
       ELSE IF f.k = "message_start" /\ f.n # Absent THEN [a1 EXCEPT !.tokensIn = OrZero(f.n)]
       ELSE IF f.k = "content_block_delta" /\ Truthy(f.text)
            THEN [a1 EXCEPT !.completionText = @ \o f.text]
       ELSE IF f.k = "message_delta" /\ f.n # Absent THEN [a1 EXCEPT !.tokensOut = OrZero(f.n)]
       ELSE a1

\* estimateTokens (lines 937-940): Math.ceil(text.length / 4)
estimateTokens(text) == IF Len(text) = 0 THEN 0 ELSE (Len(text) + 3) \div 4

-----------------------------------------------------------------------------
(* Proxy handlers: POST /v1/chat/completions (lines 943-1161) and          *)
(* POST /v1/messages (lines 1241-1504).  A handler runs from one await to  *)
(* the next in one step.  A reader.read() returns either one complete line *)
(* (ReadLine, the carry-over buffer then stays empty) or the next          *)
(* characters of a wire text (ReadChunk, with the carry-over buffer).      *)

\* the messages of the requests of the model, and their serialisation
\* (line 974: `${m.role}: ${m.content}` joined by '\n')
RoleUser == <<"u", "s", "e", "r">>

RoleSystem == <<"s", "y", "s", "t", "e", "m">>

RoleAssistant == <<"a", "s", "s", "i", "s", "t", "a", "n", "t">>

Message(role, content) == [role |-> role, content |-> content]

RequestMessages == <<Message(RoleUser, <<"h", "i">>)>>

\* the line feed
LF == "\n"

RECURSIVE JoinLines(_)
JoinLines(msgs) ==
    IF msgs = <<>> THEN <<>>
    ELSE IF Len(msgs) = 1 THEN msgs[1].role \o <<":", " ">> \o msgs[1].content
    ELSE msgs[1].role \o <<":", " ">> \o msgs[1].content \o <<LF>> \o JoinLines(Tail(msgs))

NoRequest == [model |-> <<>>, messages |-> <<>>]

\* String.prototype.split('\n')
RECURSIVE SplitLines(_)
SplitLines(text) ==
    IF \A j \in 1..Len(text) : text[j] # LF THEN <<text>>
    ELSE LET k == CHOOSE j \in 1..Len(text) : text[j] = LF /\ \A h \in 1..(j - 1) : text[h] # LF
         IN <<SubSeq(text, 1, k - 1)>> \o SplitLines(SubSeq(text, k + 1, Len(text)))

\* Array.prototype.join('\n')
RECURSIVE JoinWithLF(_)
JoinWithLF(lines) ==
    IF lines = <<>> THEN <<>>
    ELSE IF Len(lines) = 1 THEN lines[1]
    ELSE lines[1] \o <<LF>> \o JoinWithLF(Tail(lines))

\* white space of the texts of this development
IsSpace(c) == c \in {" ", LF}

\* a trim that removes nothing
TrimNone(text) == text

\* String.prototype.trim
RECURSIVE TrimLeft(_)
TrimLeft(text) == IF text # <<>> /\ IsSpace(Head(text)) THEN TrimLeft(Tail(text)) ELSE text

RECURSIVE TrimRight(_)
TrimRight(text) ==
    IF text # <<>> /\ IsSpace(text[Len(text)]) THEN TrimRight(SubSeq(text, 1, Len(text) - 1)) ELSE text

Trim(text) == TrimRight(TrimLeft(text))

\* The wire text of the lines of a stream.  A payload is written with two
\* characters, so that a read can end inside it:
\*   {a {b   a chunk of the OpenAI format with delta content "a", "b"
\*   {S      message_start with input_tokens 2      {A   content_block_delta "a"
\*   {M      message_delta with output_tokens 1     {P   message_stop
\*   [D      [DONE]
\* and every other payload is text that JSON.parse rejects.
DataPrefix == <<"d", "a", "t", "a", ":", " ">>

ParseLine(line) ==
    IF Trim(line) = <<>> THEN Frame("blank", "", 0)
    ELSE IF ~StartsWith(line, DataPrefix) THEN Frame("event", "", 0)
    ELSE LET data == SubSeq(line, Len(DataPrefix) + 1, Len(line))
         IN IF data = <<"[", "D">> THEN DoneFrame
            ELSE IF data = <<"{", "a">> THEN Frame("chunk", "a", 0)
            ELSE IF data = <<"{", "b">> THEN Frame("chunk", "b", 0)
            ELSE IF data = <<"{", "S">> THEN Frame("message_start", "", 2)
            ELSE IF data = <<"{", "A">> THEN Frame("content_block_delta", "a", 0)
            ELSE IF data = <<"{", "M">> THEN Frame("message_delta", "", 1)
            ELSE IF data = <<"{", "P">> THEN Frame("message_stop", "", 0)
            ELSE Frame("notjson", "", 0)

\* a handler that is not running.  upstream is the text the upstream's body
\* will deliver and buffer the carry-over of the streaming loop, in the
\* behaviours that deliver the body by characters.
NoCall ==
    [endpoint |-> "none", provider |-> NULLS, stream |-> FALSE, pc |-> "none",
     acc |-> NewAcc, recv |-> <<>>, code |-> 0, ended |-> FALSE, finals |-> <<>>, cause |-> "none",
     gone |-> FALSE, sent |-> <<>>, upstream |-> <<>>, buffer |-> <<>>]

NewCall(endpoint, provider, stream) ==
    [NoCall EXCEPT !.endpoint = endpoint, !.provider = provider, !.stream = stream, !.pc = "fetch"]

\* the columns a finalising UPDATE of a handler carries (NotSet: the column
\* is not in its SET list)
NotSet == "<not set>"

SuccessWrite(completion, tokensIn, tokensOut) ==
    [status |-> "success", completion |-> completion, tokens_in |-> tokensIn,
     tokens_out |-> tokensOut, error |-> <<>>]

FailedWrite(message) ==
    [status |-> "failed", completion |-> NotSet, tokens_in |-> Absent,
     tokens_out |-> Absent, error |-> message]

\* WHERE id = ?  of the handlers' UPDATEs (lines 1145, 1152, 1331, 1418, 1489)
ProxyWhere(row, id, taskId) == id = taskId

ApplyWrite(row, w) ==
    IF w.status = "success"
    THEN [row EXCEPT !.status = "success", !.completion = w.completion,
                     !.tokens_in = w.tokens_in, !.tokens_out = w.tokens_out]
    ELSE [row EXCEPT !.status = "failed", !.error = w.error]

\* the cost column of the success UPDATEs (lines 1143, 1416, 1462, 1812),
\* computed from the handler's own model, which the snapshot holds; a NaN is
\* kept as it is
WithCost(row, endpoint, w) ==
    IF w.status # "success" THEN row
    ELSE IF endpoint = "messages"
    THEN [row EXCEPT !.cost = calculateAnthropicCost(row.original_request.model,
                                                     Usage(w.tokens_in, w.tokens_out, 0, 0))]
    ELSE [row EXCEPT !.cost = calculateCost(row.original_request.model, w.tokens_in, w.tokens_out)]

\* a finalising UPDATE that matches no row
FinaliseNoRow(id, w) == UNCHANGED <<tasks, ledger, prompt_templates>>

\* a finalising UPDATE by the handler of task id
Finalise(id, w) ==
    /\ tasks' = [i \in TaskIds |->
                    IF ProxyWhere(tasks[i], i, id)
                    THEN WithCost(ApplyWrite(tasks[i], w), calls[id].endpoint, w) ELSE tasks[i]]
    /\ UNCHANGED prompt_templates
    /\ ledger' = [i \in TaskIds |-> IF ProxyWhere(tasks[i], i, id) THEN ledger[i] + 1 ELSE ledger[i]]

\* error.message of the exceptions the handlers catch
FetchFailed == <<"fetch failed">>

UpstreamBody == <<"upstream said no">>

BadJson == <<"Unexpected token < in JSON">>

NullBody == <<"Cannot read properties of null">>

ReadFailed == <<"terminated">>

\* requests to POST /v1/chat/completions: the bearer credential, the model
\* (<<>>: missing), whether messages is present, and the stream flag
ChatRequest(auth, model, hasMessages, stream) ==
    [auth |-> auth, model |-> model, hasMessages |-> hasMessages, stream |-> stream,
     modelIsString |-> TRUE, messagesIsArray |-> TRUE, messages |-> RequestMessages]

\* a request with the given messages array
ChatRequestOf(auth, model, messages) ==
    [ChatRequest(auth, model, TRUE, FALSE) EXCEPT !.messages = messages]

\* the turns of a native request: role and content of the canonical
\* messages that are not system messages
NativeTurns(messages, outputRole) ==
    LET NotSystem(m) == m.role # RoleSystem
        others == SelectSeq(messages, NotSystem)
    IN [k \in 1..Len(others) |->
            [role |-> IF others[k].role = RoleAssistant THEN outputRole ELSE RoleUser,
             content |-> others[k].content]]

\* messages.find(m => m.role === 'system'): its index, 0 if there is none
FindSystem(messages) ==
    IF \E k \in 1..Len(messages) : messages[k].role = RoleSystem
    THEN CHOOSE k \in 1..Len(messages) :
            messages[k].role = RoleSystem /\ \A j \in 1..(k - 1) : messages[j].role # RoleSystem
    ELSE 0

\* the native request with the turns' roles left as they are
convertToAnthropicSameRoles(model, messages) ==
    [messages |-> LET NotSystem(m) == m.role # RoleSystem IN SelectSeq(messages, NotSystem),
     hasSystem |-> FindSystem(messages) # 0,
     system |-> IF FindSystem(messages) # 0 THEN messages[FindSystem(messages)].content ELSE <<>>]

\* convertToAnthropic (lines 886-899): messages and the system field, which
\* is in the object only if there is a system message
convertToAnthropic(model, messages) ==
    [messages |-> NativeTurns(messages, RoleAssistant),
     hasSystem |-> FindSystem(messages) # 0,
     system |-> IF FindSystem(messages) # 0 THEN messages[FindSystem(messages)].content ELSE <<>>]

RoleModel == <<"m", "o", "d", "e", "l">>

\* convertToGemini (lines 912-922): contents and systemInstruction
convertToGemini(model, messages) ==
    [messages |-> NativeTurns(messages, RoleModel),
     hasSystem |-> FindSystem(messages) # 0,
     system |-> IF FindSystem(messages) # 0 THEN messages[FindSystem(messages)].content ELSE <<>>]

\* the body of the upstream request (lines 1010, 1075, 1098, 1130, 1753-1790):
\* an upstream answer of the Anthropic or Gemini format, by the fields the
\* conversions read: the terminal reason (stop_reason, finishReason), the
\* text of the first block or part, and the two token counts (Absent: the
\* usage object has no such count)
UpstreamAnswer(reason, text, tokensIn, tokensOut) ==
    [reason |-> reason, text |-> text, tokensIn |-> tokensIn, tokensOut |-> tokensOut]

\* text || ''  on an optional text
OrEmpty(text) == IF text = NULLS THEN "" ELSE text

\* convertFromAnthropic (lines 901-910): the fields of the canonical response
\* that depend on the upstream answer
convertFromAnthropic(answer) ==
    [content |-> OrEmpty(answer.text),
     finish_reason |-> IF answer.reason = "end_turn" THEN "stop" ELSE answer.reason,
     prompt_tokens |-> OrZero(answer.tokensIn),
     completion_tokens |-> OrZero(answer.tokensOut)]

\* convertFromGemini (lines 924-935)
convertFromGemini(answer) ==
    [content |-> OrEmpty(answer.text),
     finish_reason |-> IF answer.reason = "STOP" THEN "stop" ELSE "length",
     prompt_tokens |-> OrZero(answer.tokensIn),
     completion_tokens |-> OrZero(answer.tokensOut)]

\* the other providers take the canonical messages as they are
NativeRequest(provider, model, messages) ==
    IF provider = "anthropic" THEN convertToAnthropic(model, messages)
    ELSE IF provider = "google" THEN convertToGemini(model, messages)
    ELSE [messages |-> messages, hasSystem |-> FALSE, system |-> <<>>]

\* a request whose model and messages are present and truthy but need not be
\* a string and an array (express.json() accepts any JSON body)
ShapedRequest(auth, model, modelIsString, messagesIsArray) ==
    [ChatRequest(auth, model, TRUE, FALSE) EXCEPT !.modelIsString = modelIsString,
                                                  !.messagesIsArray = messagesIsArray]

\* what the caller sees of an exception thrown by an async handler outside
\* its try block: Express 4 ignores the rejected promise and nothing is sent
\* (Thrown); Express 5 passes it to the default error handler, which answers
\* 500.  The repository does not pin the version.
Thrown == 0 - 1

EscapeOutcomes == {Thrown, 500}

\* the handler's promise rejects: no code of the handler runs any more
Escapes(op) ==
    \E code \in EscapeOutcomes : resp' = [op |-> op, id |-> NULLID, code |-> code]

\* POST /v1/chat/completions up to its first await (lines 943-1017)
ChatStart(r, maxCalls) ==
    LET provider == IF detectProviderFromKey(r.auth.key) # NULLS
                    THEN detectProviderFromKey(r.auth.key)
                    ELSE detectProviderFromModel(r.model)
        got == getOrCreateAccount(accounts, hashKey(r.auth.key), provider)
    IN
    /\ Len(tasks) < maxCalls
    /\ IF r.model = <<>> \/ ~r.hasMessages
       THEN /\ resp' = [op |-> "chat", id |-> NULLID, code |-> 400]
            /\ UNCHANGED <<accounts, tasks, calls, ledger, issued, prompt_templates>>
       ELSE IF ~r.auth.bearer
       THEN /\ resp' = [op |-> "chat", id |-> NULLID, code |-> 401]
            /\ UNCHANGED <<accounts, tasks, calls, ledger, issued, prompt_templates>>
       ELSE IF detectProviderFromKey(r.auth.key) = NULLS /\ ~r.modelIsString
       THEN \* model.toLowerCase is not a function (line 149, called at line 965)
            /\ Escapes("chat")
            /\ UNCHANGED <<accounts, tasks, calls, ledger, issued, prompt_templates>>
       ELSE IF ~r.messagesIsArray
       THEN \* messages.map is not a function (line 974), after the account
            \* was fetched or created (line 970)
            /\ accounts' = got.accounts
            /\ issued' = issued \cup {<<hashKey(r.auth.key), got.id>>}
            /\ Escapes("chat")
            /\ UNCHANGED <<tasks, calls, ledger, prompt_templates>>
       ELSE /\ accounts' = got.accounts
            /\ issued' = issued \cup {<<hashKey(r.auth.key), got.id>>}
            /\ tasks' = Append(tasks, WithProvider(TaskRow(NULLID, got.id, "running", r.model,
                                                            JoinLines(r.messages), NULLID,
                                                            [model |-> r.model, messages |-> r.messages],
                                                            FreshTraceId(tasks)),
                                                    provider))
            /\ UNCHANGED prompt_templates
            /\ ledger' = Append(ledger, 0)
            /\ calls' = Append(calls, [NewCall("chat", provider, r.stream) EXCEPT
                                          !.sent = NativeRequest(provider, r.model, r.messages)])
            /\ UNCHANGED resp

\* requests to POST /v1/messages: the key of x-api-key or Authorization
\* (<<>>: neither header), the model and messages as above
MessagesStart(r, maxCalls) ==
    LET got == getOrCreateAccount(accounts, hashKey(r.auth.key), "anthropic") IN
    /\ Len(tasks) < maxCalls
    /\ IF r.model = <<>> \/ ~r.hasMessages
       THEN /\ resp' = [op |-> "messages", id |-> NULLID, code |-> 400]
            /\ UNCHANGED <<accounts, tasks, calls, ledger, issued, prompt_templates>>
       ELSE IF r.auth.key = <<>>
       THEN /\ resp' = [op |-> "messages", id |-> NULLID, code |-> 401]
            /\ UNCHANGED <<accounts, tasks, calls, ledger, issued, prompt_templates>>
       ELSE IF ~r.messagesIsArray
       THEN \* extractTaskDescription(messages) or messages.map throws (lines
            \* 1271-1272), after the account was fetched or created (line 1267)
            /\ accounts' = got.accounts
            /\ issued' = issued \cup {<<hashKey(r.auth.key), got.id>>}
            /\ Escapes("messages")
            /\ UNCHANGED <<tasks, calls, ledger, prompt_templates>>
       ELSE /\ accounts' = got.accounts
            /\ issued' = issued \cup {<<hashKey(r.auth.key), got.id>>}
            /\ tasks' = Append(tasks, WithProvider(TaskRow(NULLID, got.id, "running", r.model,
                                                            JoinLines(RequestMessages), NULLID,
                                                            [model |-> r.model, messages |-> RequestMessages],
                                                            FreshTraceId(tasks)),
                                                    "anthropic"))
            /\ UNCHANGED prompt_templates
            /\ ledger' = Append(ledger, 0)
            /\ calls' = Append(calls, NewCall("messages", "anthropic", r.stream))
            /\ UNCHANGED resp

\* the branch of the chat handler that streams: the Google branch ignores
\* the stream flag (lines 1074-1086)
Streams(c) ==
    IF c.endpoint = "chat" THEN c.stream /\ c.provider # "google" ELSE c.stream

\* the handler ends with a failed UPDATE and, if no header went out, an
\* error response of status code
\* the catch block below answering with its JSON error body whatever has
\* been sent
FailCallAlwaysAnswers(id, message, code, cause) ==
    /\ Finalise(id, FailedWrite(message))
    /\ calls' = [calls EXCEPT ![id] =
                    [@ EXCEPT !.pc = "done", !.finals = Append(@, FailedWrite(message)),
                              !.cause = cause, !.code = code, !.ended = TRUE]]

FailCall(id, message, code, cause) ==
    /\ Finalise(id, FailedWrite(message))
    /\ calls' = [calls EXCEPT ![id] =
                    [@ EXCEPT !.pc = "done", !.finals = Append(@, FailedWrite(message)),
                              !.cause = cause,
                              !.code = IF calls[id].acc.out = <<>> THEN code ELSE 200,
                              !.ended = (calls[id].acc.out = <<>>)]]

\* "Flush any remaining buffer" of /v1/messages (lines 1403-1406), reached
\* when the loop ends without an exception: the carry-over is written to the
\* caller and is not parsed; the chat loops have no such step (lines 1057, 1126)
Flushed(c, cause) ==
    IF c.endpoint = "messages" /\ cause = "eof" /\ Trim(c.buffer) # <<>>
    THEN [c.acc EXCEPT !.out = Append(@, ParseLine(c.buffer))]
    ELSE c.acc

\* the handler ends with the success UPDATE
SucceedCall(id, completion, tokensIn, tokensOut, cause) ==
    /\ Finalise(id, SuccessWrite(completion, tokensIn, tokensOut))
    /\ calls' = [calls EXCEPT ![id] =
                    [@ EXCEPT !.pc = "done", !.acc = Flushed(calls[id], cause),
                              !.finals = Append(@, SuccessWrite(completion, tokensIn, tokensOut)),
                              !.cause = cause, !.code = 200, !.ended = TRUE]]

\* errorBody.substring(0, 500) of lines 1332 and 1449
ErrorBodyLimit == 500

\* String.prototype.substring(0, n)
SubstringTo(text, n) == SubSeq(text, 1, IF Len(text) < n THEN Len(text) ELSE n)

\* the error text stored for an upstream answer of status 500 with the given
\* body: /v1/messages stores a prefix of the body (lines 1332, 1449), the chat
\* and replay handlers throw an Error whose message holds the whole body
\* (lines 1019, 1065, 1079, 1094, 1131, 1765, 1782, 1802) and store that
\* message (lines 1153, 1841)
NonSuccessText(c, body) ==
    IF c.endpoint = "messages" THEN <<"HTTP ", "500", ": ">> \o SubstringTo(body, ErrorBodyLimit)
    ELSE <<c.provider, " error: ", "500", " - ">> \o body

\* the error text stored for an upstream answer of status 500 (lines 1019,
\* 1065, 1079, 1094, 1131 and 1332, 1449)
NonSuccessMessage(c) == NonSuccessText(c, UpstreamBody)

\* await fetch(...) returns or throws; on a non-2xx status the handler
\* awaits response.text() and fails (lines 1019, 1079, 1094, 1326-1336, 1443-1452)
FetchReturns(id, outcome) ==
    /\ id \in TaskIds
    /\ calls[id].pc = "fetch"
    /\ UNCHANGED <<accounts, resp, issued>>
    /\ IF outcome = "neterr" THEN FailCall(id, FetchFailed, 500, "neterr")
       ELSE IF outcome = "non2xx"
       THEN FailCall(id, NonSuccessMessage(calls[id]), 500, "non2xx")
       ELSE /\ calls' = [calls EXCEPT ![id] = [@ EXCEPT !.pc = IF Streams(calls[id]) THEN "stream" ELSE "body"]]
            /\ UNCHANGED <<tasks, ledger, prompt_templates>>

\* await fetch(...) returns a non-2xx answer and await response.text() the
\* given body (lines 1019, 1094, 1131, 1326-1336, 1443-1452, 1765-1802)
FetchRejects(id, body) ==
    /\ id \in TaskIds
    /\ calls[id].pc = "fetch"
    /\ UNCHANGED <<accounts, resp, issued>>
    /\ FailCall(id, NonSuccessText(calls[id], body), 500, "non2xx")

\* await response.json() returns or throws, in the branches that do not
\* stream (lines 1067-1072, 1081-1086, 1133-1137, 1454-1483)
BodyReturns(id, outcome) ==
    /\ id \in TaskIds
    /\ calls[id].pc = "body"
    /\ UNCHANGED <<accounts, resp, issued>>
    /\ IF outcome = "badjson" THEN FailCall(id, BadJson, 500, "badjson")
       ELSE IF outcome = "null" THEN FailCall(id, NullBody, 500, "badjson")
       ELSE SucceedCall(id, "ok", 2, 1, "json")

\* await response.json() returns a body whose usage carries the two token
\* counts: the chat handler takes usage.prompt_tokens || estimateTokens(promptText)
\* (line 1134), the messages handler usage.input_tokens || 0 (line 1472)
BodyReturnsUsage(id, tokensIn, tokensOut) ==
    /\ id \in TaskIds
    /\ calls[id].pc = "body"
    /\ UNCHANGED <<accounts, resp, issued>>
    /\ SucceedCall(id, "ok",
                   IF calls[id].endpoint = "chat" /\ tokensIn = 0
                   THEN estimateTokens(tasks[id].prompt) ELSE tokensIn,
                   tokensOut, "json")

\* await response.json() returns the upstream's answer in the branches of
\* /v1/chat/completions that convert it (lines 1067-1072, 1081-1086): the
\* canonical response is sent with res.json, then the success UPDATE runs
BodyReturnsAnswer(id, answer) ==
    /\ id \in TaskIds
    /\ calls[id].pc = "body"
    /\ calls[id].endpoint = "chat"
    /\ calls[id].provider \in {"anthropic", "google"}
    /\ LET responseData == IF calls[id].provider = "anthropic" THEN convertFromAnthropic(answer)
                           ELSE convertFromGemini(answer)
       IN /\ resp' = [op |-> "chat", id |-> id, code |-> 200, body |-> responseData]
          /\ SucceedCall(id, responseData.content, responseData.prompt_tokens,
                         responseData.completion_tokens, "json")
    /\ UNCHANGED <<accounts, issued>>

LineOf(c, f) ==
    IF c.endpoint = "messages" THEN MessagesLine(c.acc, f)
    ELSE IF c.provider = "anthropic" THEN AnthropicChatLine(c.acc, f)
    ELSE OpenAILine(c.acc, f)

\* await reader.read() returns one line, which the loop body processes
ReadLine(id, f, maxFrames) ==
    /\ id \in TaskIds
    /\ calls[id].pc = "stream"
    /\ Len(calls[id].recv) < maxFrames
    /\ calls' = [calls EXCEPT ![id] = [@ EXCEPT !.acc = LineOf(calls[id], f), !.recv = Append(@, f)]]
    /\ UNCHANGED <<accounts, tasks, resp, ledger, issued, prompt_templates>>

\* await fetch(...) returns a 2xx answer whose body will deliver text
FetchStreams(id, text) ==
    /\ id \in TaskIds
    /\ calls[id].pc = "fetch"
    /\ Streams(calls[id])
    /\ calls' = [calls EXCEPT ![id] = [@ EXCEPT !.pc = "stream", !.upstream = text]]
    /\ UNCHANGED <<accounts, tasks, resp, ledger, issued, prompt_templates>>

\* the for loop over the complete lines of one read
RECURSIVE ProcessLines(_, _)
ProcessLines(c, lines) ==
    IF lines = <<>> THEN c.acc
    ELSE ProcessLines([c EXCEPT !.acc = LineOf(c, ParseLine(Head(lines)))], Tail(lines))

\* await reader.read() returns the next n characters of the body:
\* buffer += decode(value); lines = buffer.split('\n'); buffer = lines.pop() || '';
\* then the loop body for every line left (lines 1033-1055, 1108-1124, 1356-1400)
ReadChunk(id, n) ==
    /\ id \in TaskIds
    /\ calls[id].pc = "stream"
    /\ n >= 1
    /\ Len(calls[id].recv) + n <= Len(calls[id].upstream)
    /\ LET c == calls[id]
           value == SubSeq(c.upstream, Len(c.recv) + 1, Len(c.recv) + n)
           lines == SplitLines(c.buffer \o value)
       IN calls' = [calls EXCEPT ![id] =
                       [@ EXCEPT !.acc = ProcessLines(c, SubSeq(lines, 1, Len(lines) - 1)),
                                 !.buffer = lines[Len(lines)],
                                 !.recv = @ \o value]]
    /\ UNCHANGED <<accounts, tasks, resp, ledger, issued, prompt_templates>>

\* await reader.read() returns done: the loop ends, res.end(), and the code
\* after the loop runs (lines 1057, 1126-1128, 1141-1146, 1403-1431)
ReadDone(id) ==
    /\ id \in TaskIds
    /\ calls[id].pc = "stream"
    /\ Len(calls[id].recv) >= Len(calls[id].upstream)
    /\ UNCHANGED <<accounts, resp, issued>>
    /\ IF calls[id].endpoint = "chat" /\ calls[id].provider # "anthropic"
       THEN SucceedCall(id, calls[id].acc.completionText, estimateTokens(tasks[id].prompt),
                        estimateTokens(calls[id].acc.completionText), "eof")
       ELSE SucceedCall(id, calls[id].acc.completionText, calls[id].acc.tokensIn,
                        calls[id].acc.tokensOut, "eof")

\* await reader.read() throws: the chat handler's only catch is the outer
\* one (lines 1150-1160); /v1/messages catches it next to the loop, ends the
\* response and goes on to its success UPDATE (lines 1408-1431)
ReadFails(id) ==
    /\ id \in TaskIds
    /\ calls[id].pc = "stream"
    /\ UNCHANGED <<accounts, resp, issued>>
    /\ IF calls[id].endpoint = "chat"
       THEN FailCall(id, ReadFailed, 500, "readerr")
       ELSE SucceedCall(id, calls[id].acc.completionText, calls[id].acc.tokensIn,
                        calls[id].acc.tokensOut, "readerr")

\* the caller closes the connection while the handler relays the stream.  The
\* handlers register no listener on the request, the response or the socket
\* and pass no abort signal to fetch (lines 1025-1057, 1100-1128, 1347-1412),
\* so no code of theirs runs; res.write on the closed response does not throw.
Disconnect(id) ==
    /\ id \in TaskIds
    /\ calls[id].pc = "stream"
    /\ ~calls[id].gone
    /\ calls' = [calls EXCEPT ![id] = [@ EXCEPT !.gone = TRUE]]
    /\ UNCHANGED <<accounts, tasks, resp, ledger, issued, prompt_templates>>

-----------------------------------------------------------------------------
(* Client task API (lines 301-469) *)

ClientAuths == {NoAuth, Bearer(LegacyKey), Bearer(KeyOpenAI)}

\* request bodies of POST /api/track: the required fields present or not, and
\* the status given
TrackBody(required, status, parentId, traceId, model, prompt) ==
    [required |-> required, status |-> status, parent_id |-> parentId, trace_id |-> traceId,
     model |-> model, prompt |-> prompt, durationMs |-> 0, cost |-> 0, tokens_in |-> 0, tokens_out |-> 0]

\* a body that also gives durationMs, cost, tokens_in and tokens_out
MeasuredBody(body, durationMs, cost, tokensIn, tokensOut) ==
    [body EXCEPT !.durationMs = durationMs, !.cost = cost, !.tokens_in = tokensIn, !.tokens_out = tokensOut]

TrackBodies ==
    {TrackBody(TRUE, s, NULLID, NULLID, <<>>, <<>>) : s \in Statuses \cup {"bogus"}}
        \cup {TrackBody(FALSE, "success", NULLID, NULLID, <<>>, <<>>)}

\* POST /api/track
Track(auth, body) ==
    LET req == validateApiKey(accounts, auth) IN
    /\ accounts' = req.accounts
    /\ issued' = issued \cup IssuedBy(auth, req)
    /\ IF ~req.ok
       THEN /\ resp' = [op |-> "track", id |-> NULLID, code |-> 401]
            /\ UNCHANGED <<tasks, calls, ledger, prompt_templates>>
       ELSE IF ~body.required
       THEN /\ resp' = [op |-> "track", id |-> NULLID, code |-> 400]
            /\ UNCHANGED <<tasks, calls, ledger, prompt_templates>>
       ELSE IF body.status \notin Statuses
       THEN /\ resp' = [op |-> "track", id |-> NULLID, code |-> 400]
            /\ UNCHANGED <<tasks, calls, ledger, prompt_templates>>
       ELSE /\ tasks' = Append(tasks, [TaskRow(req.apiKeyId, getAccountId(req), body.status,
                                                body.model, body.prompt, body.parent_id, NoRequest,
                                                TraceIdOr(body.trace_id, tasks))
                                           EXCEPT !.duration_ms = body.durationMs, !.cost = Num(body.cost),
                                                  !.tokens_in = body.tokens_in,
                                                  !.tokens_out = body.tokens_out])
            /\ UNCHANGED prompt_templates
            /\ ledger' = Append(ledger, 0)
            /\ calls' = Append(calls, NoCall)
            /\ resp' = [op |-> "track", id |-> Len(tasks) + 1, code |-> 200]

\* request bodies of POST /api/tasks/start
StartBody(required, parentId, traceId) ==
    [required |-> required, parent_id |-> parentId, trace_id |-> traceId]

StartBodies == {StartBody(required, NULLID, NULLID) : required \in BOOLEAN}

\* POST /api/tasks/start
StartTask(auth, body) ==
    LET req == validateApiKey(accounts, auth) IN
    /\ accounts' = req.accounts
    /\ issued' = issued \cup IssuedBy(auth, req)
    /\ IF ~req.ok
       THEN /\ resp' = [op |-> "start", id |-> NULLID, code |-> 401]
            /\ UNCHANGED <<tasks, calls, ledger, prompt_templates>>
       ELSE IF ~body.required
       THEN /\ resp' = [op |-> "start", id |-> NULLID, code |-> 400]
            /\ UNCHANGED <<tasks, calls, ledger, prompt_templates>>
       ELSE /\ tasks' = Append(tasks, TaskRow(req.apiKeyId, getAccountId(req), "running",
                                               <<>>, <<>>, body.parent_id, NoRequest,
                                               TraceIdOr(body.trace_id, tasks)))
            /\ UNCHANGED prompt_templates
            /\ ledger' = Append(ledger, 0)
            /\ calls' = Append(calls, NoCall)
            /\ resp' = [op |-> "start", id |-> Len(tasks) + 1, code |-> 200]

\* request bodies of POST /api/tasks/:id/complete
CompleteBodies ==
    {[status |-> s, hasDuration |-> TRUE, completion |-> "ok", tokens_out |-> 1] :
        s \in TerminalStatuses \cup {"running", NULLS}}
        \cup {[status |-> "success", hasDuration |-> FALSE, completion |-> "ok", tokens_out |-> 1]}

\* the body passes the two checks of lines 419-428
CompleteBodyValid(body) ==
    /\ body.status # NULLS
    /\ body.hasDuration
    /\ body.status \in TerminalStatuses

\* the WHERE clause below without its status test
CompleteWhereAnyStatus(row, id, target, apiKeyId, accountId) ==
    /\ id = target
    /\ (SqlEq(row.api_key_id, apiKeyId) \/ SqlEq(row.account_id, accountId))

\* the WHERE clause below matching every span that is not finished
CompleteWhereNotFinished(row, id, target, apiKeyId, accountId) ==
    /\ id = target
    /\ (SqlEq(row.api_key_id, apiKeyId) \/ SqlEq(row.account_id, accountId))
    /\ row.status \in {"running", "pending"}

\* WHERE id = ? AND (api_key_id = ? OR account_id = ?) AND status = 'running'
CompleteWhere(row, id, target, apiKeyId, accountId) ==
    /\ id = target
    /\ (SqlEq(row.api_key_id, apiKeyId) \/ SqlEq(row.account_id, accountId))
    /\ row.status = "running"

\* the UPDATE of lines 434-455: every column of the SET list is overwritten
CompleteSet(row, body) ==
    [row EXCEPT !.status = body.status, !.error = <<>>, !.model = <<>>, !.prompt = <<>>,
                !.completion = OrNull(body.completion), !.tokens_in = 0,
                !.tokens_out = body.tokens_out]

\* rows the UPDATE changes (result.changes counts them)
CompleteMatches(target, req) ==
    {i \in TaskIds : CompleteWhere(tasks[i], i, target, req.apiKeyId, getAccountId(req))}

\* POST /api/tasks/:id/complete
CompleteTask(auth, target, body) ==
    LET req == validateApiKey(accounts, auth) IN
    /\ accounts' = req.accounts
    /\ issued' = issued \cup IssuedBy(auth, req)
    /\ UNCHANGED calls
    /\ IF ~req.ok
       THEN /\ resp' = [op |-> "complete", id |-> target, code |-> 401]
            /\ UNCHANGED <<tasks, ledger, prompt_templates>>
       ELSE IF ~CompleteBodyValid(body)
       THEN /\ resp' = [op |-> "complete", id |-> target, code |-> 400]
            /\ UNCHANGED <<tasks, ledger, prompt_templates>>
       ELSE /\ tasks' = [i \in TaskIds |->
                            IF i \in CompleteMatches(target, req)
                            THEN CompleteSet(tasks[i], body) ELSE tasks[i]]
            /\ UNCHANGED prompt_templates
            /\ ledger' = [i \in TaskIds |->
                            IF i \in CompleteMatches(target, req)
                            THEN ledger[i] + 1 ELSE ledger[i]]
            /\ resp' = [op |-> "complete", id |-> target,
                        code |-> IF CompleteMatches(target, req) = {} THEN 404 ELSE 200]

-----------------------------------------------------------------------------
(* Retry and trace assembly (lines 532-573, 792-835) *)

\* an ownership test that every row passes
OwnsAny(row, req) == TRUE

\* ... AND (api_key_id = ? OR account_id = ?)
Owns(row, req) ==
    SqlEq(row.api_key_id, req.apiKeyId) \/ SqlEq(row.account_id, getAccountId(req))

\* POST /api/tasks/:id/retry; modifiedPrompt <<>> is a body without
\* modified_prompt, or with the empty string (both are falsy)
Retry(auth, target, modifiedPrompt) ==
    LET req == validateApiKey(accounts, auth) IN
    /\ accounts' = req.accounts
    /\ issued' = issued \cup IssuedBy(auth, req)
    /\ IF ~req.ok
       THEN /\ resp' = [op |-> "retry", id |-> target, code |-> 401]
            /\ UNCHANGED <<tasks, calls, ledger, prompt_templates>>
       ELSE IF ~(target \in TaskIds /\ Owns(tasks[target], req))
       THEN /\ resp' = [op |-> "retry", id |-> target, code |-> 404]
            /\ UNCHANGED <<tasks, calls, ledger, prompt_templates>>
       ELSE /\ tasks' = Append(tasks, WithProvider(TaskRow(req.apiKeyId, getAccountId(req), "pending",
                                                            tasks[target].model,
                                                            IF modifiedPrompt # <<>> THEN modifiedPrompt
                                                            ELSE tasks[target].prompt,
                                                            target, NoRequest, FreshTraceId(tasks)),
                                                    tasks[target].provider))
            /\ UNCHANGED prompt_templates
            /\ ledger' = Append(ledger, 0)
            /\ calls' = Append(calls, NoCall)
            /\ resp' = [op |-> "retry", id |-> Len(tasks) + 1, code |-> 200]

\* a parent_id that is no span's id but the name of a property every
\* JavaScript object inherits ('constructor', 'toString', '__proto__')
ProtoId == 998

\* a parent_id that is neither
UnknownId == 999

\* ids of the rows the SELECT of lines 535-539 returns, in its order
TraceSpans(traceId, req) ==
    SelectSeq([i \in TaskIds |-> i],
              LAMBDA i : tasks[i].trace_id = traceId /\ Owns(tasks[i], req))

SeqRange(q) == {q[j] : j \in 1..Len(q)}

\* span.parent_id && spanMap[span.parent_id]  with spanMap = {} filled with
\* the spans' ids: own keys, and the inherited properties
InSpanMap(spans, parentId) ==
    parentId # NULLID /\ (parentId \in SeqRange(spans) \/ parentId = ProtoId)

\* spanMap[span.parent_id].children.push(...) on an inherited property, which
\* has no children array, throws a TypeError
PushThrows(spans) ==
    \E j \in 1..Len(spans) :
        tasks[spans[j]].parent_id = ProtoId /\ ProtoId \notin SeqRange(spans)

\* spans.reduce((sum, s) => sum + f(s), 0)
RECURSIVE Reduce(_, _)
Reduce(spans, f) == IF spans = <<>> THEN 0 ELSE f[Head(spans)] + Reduce(Tail(spans), f)

\* s.cost || 0  on the cost column, where a NaN is falsy
CostOrZero(row) == IF row.cost.nan THEN 0 ELSE row.cost.v

\* a summary that takes the last span's created_at for both ends
SummaryEndsAtStart(traceId, spans) ==
    [trace_id |-> traceId,
     span_count |-> Len(spans),
     total_duration_ms |-> Reduce(spans, [i \in TaskIds |-> tasks[i].duration_ms]),
     total_cost |-> Reduce(spans, [i \in TaskIds |-> CostOrZero(tasks[i])]),
     total_tokens_in |-> Reduce(spans, [i \in TaskIds |-> tasks[i].tokens_in]),
     total_tokens_out |-> Reduce(spans, [i \in TaskIds |-> tasks[i].tokens_out]),
     started_at |-> tasks[spans[Len(spans)]].created_at,
     ended_at |-> tasks[spans[Len(spans)]].created_at,
     has_failures |-> \E j \in 1..Len(spans) : tasks[spans[j]].status = "failed"]

\* the summary object of lines 560-570, for the non-empty result of the SELECT
Summary(traceId, spans) ==
    [trace_id |-> traceId,
     span_count |-> Len(spans),
     total_duration_ms |-> Reduce(spans, [i \in TaskIds |-> tasks[i].duration_ms]),
     total_cost |-> Reduce(spans, [i \in TaskIds |-> CostOrZero(tasks[i])]),
     total_tokens_in |-> Reduce(spans, [i \in TaskIds |-> tasks[i].tokens_in]),
     total_tokens_out |-> Reduce(spans, [i \in TaskIds |-> tasks[i].tokens_out]),
     started_at |-> tasks[spans[1]].created_at,
     ended_at |-> tasks[spans[Len(spans)]].created_at,
     has_failures |-> \E j \in 1..Len(spans) : tasks[spans[j]].status = "failed"]

\* GET /api/traces/:traceId: the roots and, for every span returned, its
\* children array; an exception thrown by the handler is answered 500 by
\* the framework
GetTrace(auth, traceId) ==
    LET req == validateApiKey(accounts, auth)
        spans == TraceSpans(traceId, req)
    IN
    /\ accounts' = req.accounts
    /\ issued' = issued \cup IssuedBy(auth, req)
    /\ UNCHANGED <<tasks, calls, ledger, prompt_templates>>
    /\ IF ~req.ok
       THEN resp' = [op |-> "trace", id |-> traceId, code |-> 401]
       ELSE IF spans = <<>>
       THEN resp' = [op |-> "trace", id |-> traceId, code |-> 404]
       ELSE IF PushThrows(spans)
       THEN resp' = [op |-> "trace", id |-> traceId, code |-> 500]
       ELSE resp' = [op |-> "trace", id |-> traceId, code |-> 200, spans |-> spans,
                     summary |-> Summary(traceId, spans),
                     tree |-> SelectSeq(spans, LAMBDA i : ~InSpanMap(spans, tasks[i].parent_id)),
                     children |-> [p \in SeqRange(spans) |->
                                      SelectSeq(spans, LAMBDA i : tasks[i].parent_id = p)]]

\* GET /api/tasks/:id: the row with this id if the caller owns it
GetTask(auth, target) ==
    LET req == validateApiKey(accounts, auth) IN
    /\ accounts' = req.accounts
    /\ issued' = issued \cup IssuedBy(auth, req)
    /\ UNCHANGED <<tasks, calls, ledger, prompt_templates>>
    /\ IF ~req.ok
       THEN resp' = [op |-> "task", id |-> target, code |-> 401]
       ELSE IF ~(target \in TaskIds /\ Owns(tasks[target], req))
       THEN resp' = [op |-> "task", id |-> target, code |-> 404]
       ELSE resp' = [op |-> "task", id |-> target, code |-> 200, row |-> tasks[target]]

\* a sequence back to front
Reverse(q) == [j \in 1..Len(q) |-> q[Len(q) + 1 - j]]

\* GET /api/tasks: the caller's rows created after since, the latest first,
\* at most limit of them (ids stand for the rows; created_at grows with the id)
ListTasks(auth, since, limit) ==
    LET req == validateApiKey(accounts, auth)
        rows == Reverse(SelectSeq([i \in TaskIds |-> i],
                                  LAMBDA i : Owns(tasks[i], req) /\ tasks[i].created_at > since))
    IN
    /\ accounts' = req.accounts
    /\ issued' = issued \cup IssuedBy(auth, req)
    /\ UNCHANGED <<tasks, calls, ledger, prompt_templates>>
    /\ IF ~req.ok
       THEN resp' = [op |-> "list", id |-> NULLID, code |-> 401]
       ELSE resp' = [op |-> "list", id |-> NULLID, code |-> 200,
                     rows |-> SubSeq(rows, 1, IF Len(rows) < limit THEN Len(rows) ELSE limit)]

-----------------------------------------------------------------------------
(* Replay (lines 1626-1852) *)

\* the role whose tag the line starts with (lines 1654, 1661, 1668), <<>> if
\* none
TagOf(line) ==
    IF StartsWith(line, RoleSystem \o <<":">>) THEN RoleSystem
    ELSE IF StartsWith(line, RoleUser \o <<":">>) THEN RoleUser
    ELSE IF StartsWith(line, RoleAssistant \o <<":">>) THEN RoleAssistant
    ELSE <<>>

\* messages.push({ role: currentRole, content: currentContent.join('\n').trim() })
\* if currentContent holds a line
Flush(messages, role, content) ==
    IF content # <<>> THEN Append(messages, Message(role, Trim(JoinWithLF(content)))) ELSE messages

\* the loop of lines 1653-1682 from the given line on; line.replace(tag, '')
\* removes the tag the line starts with
RECURSIVE RebuildFrom(_, _, _, _)
RebuildFrom(lines, messages, role, content) ==
    IF lines = <<>> THEN Flush(messages, role, content)
    ELSE IF TagOf(Head(lines)) # <<>>
    THEN RebuildFrom(Tail(lines), Flush(messages, role, content), TagOf(Head(lines)),
                     <<Trim(SubSeq(Head(lines), Len(TagOf(Head(lines))) + 2, Len(Head(lines))))>>)
    ELSE RebuildFrom(Tail(lines), messages, role, Append(content, Head(lines)))

\* lines 1648-1687
ReconstructMessages(prompt) ==
    IF RebuildFrom(SplitLines(prompt), <<>>, RoleUser, <<>>) = <<>>
    THEN <<Message(RoleUser, prompt)>>
    ELSE RebuildFrom(SplitLines(prompt), <<>>, RoleUser, <<>>)

\* lines 1637-1693: the stored snapshot, else the request rebuilt from prompt
\* and model, else none
ReplayRequestOf(row) ==
    IF row.original_request # NoRequest THEN row.original_request
    ELSE IF row.prompt # <<>> /\ row.model # <<>>
    THEN [model |-> row.model, messages |-> ReconstructMessages(row.prompt)]
    ELSE NoRequest

\* POST /api/tasks/:id/replay up to its await: headerKey is the value of
\* x-provider-key (<<>>: no such header)
ReplayStart(auth, target, headerKey) ==
    LET req == validateApiKey(accounts, auth)
        providerKey == IF req.providerKey # <<>> THEN req.providerKey ELSE headerKey
    IN
    /\ accounts' = req.accounts
    /\ issued' = issued \cup IssuedBy(auth, req)
    /\ IF ~req.ok
       THEN /\ resp' = [op |-> "replay", id |-> target, code |-> 401]
            /\ UNCHANGED <<tasks, calls, ledger, prompt_templates>>
       ELSE IF ~(target \in TaskIds /\ Owns(tasks[target], req))
       THEN /\ resp' = [op |-> "replay", id |-> target, code |-> 404]
            /\ UNCHANGED <<tasks, calls, ledger, prompt_templates>>
       ELSE IF ReplayRequestOf(tasks[target]) = NoRequest \/ providerKey = <<>>
       THEN /\ resp' = [op |-> "replay", id |-> target, code |-> 400]
            /\ UNCHANGED <<tasks, calls, ledger, prompt_templates>>
       ELSE /\ tasks' = Append(tasks, WithProvider(TaskRow(req.apiKeyId, getAccountId(req), "running",
                                                            tasks[target].model, tasks[target].prompt, target,
                                                            ReplayRequestOf(tasks[target]), FreshTraceId(tasks)),
                                                    tasks[target].provider))
            /\ UNCHANGED prompt_templates
            /\ ledger' = Append(ledger, 0)
            /\ LET provider == IF detectProviderFromKey(providerKey) # NULLS
                                THEN detectProviderFromKey(providerKey)
                                ELSE detectProviderFromModel(ReplayRequestOf(tasks[target]).model)
               IN calls' = Append(calls,
                                  [NewCall("replay", provider, FALSE) EXCEPT
                                      !.sent = NativeRequest(provider, ReplayRequestOf(tasks[target]).model,
                                                             ReplayRequestOf(tasks[target]).messages)])
            /\ UNCHANGED resp

-----------------------------------------------------------------------------
(* POST /api/account/lookup (lines 255-298) *)

ValidProviders == {"openai", "anthropic", "google", "xai"}

\* the body's key_hash is the digest the app computed (CHANGELOG, How It
\* Works Now, step 2); <<>> is a missing field
Lookup(keyHash, provider) ==
    /\ UNCHANGED <<tasks, calls, ledger, prompt_templates>>
    /\ IF keyHash = <<>> \/ provider = NULLS
       THEN /\ resp' = [op |-> "lookup", id |-> NULLID, code |-> 400]
            /\ UNCHANGED <<accounts, issued>>
       ELSE IF provider \notin ValidProviders
       THEN /\ resp' = [op |-> "lookup", id |-> NULLID, code |-> 400]
            /\ UNCHANGED <<accounts, issued>>
       ELSE IF SelectAccount(accounts, keyHash) = NULLID
       THEN /\ accounts' = Append(accounts, [id |-> Len(accounts) + 1, key_hash |-> keyHash,
                                             provider |-> provider])
            /\ issued' = issued \cup {<<keyHash, Len(accounts) + 1>>}
            /\ resp' = [op |-> "lookup", id |-> Len(accounts) + 1, code |-> 200]
       ELSE /\ UNCHANGED accounts
            /\ issued' = issued \cup {<<keyHash, accounts[SelectAccount(accounts, keyHash)].id>>}
            /\ resp' = [op |-> "lookup", id |-> accounts[SelectAccount(accounts, keyHash)].id, code |-> 200]

-----------------------------------------------------------------------------
(* Prompt versioning (lines 90-101, 576-616) *)

\* JSON values of a request body: a string, the literal true, or a field
\* that is not there
JsonString(text) == [type |-> "string", text |-> text]

JsonTrue == [type |-> "boolean", text |-> "true"]

JsonMissing == [type |-> "undefined", text |-> ""]

\* !value is false
JsonTruthy(value) ==
    \/ value.type = "boolean"
    \/ value.type = "string" /\ value.text # ""

\* a statement of better-sqlite3 binds numbers, strings, bigints, buffers
\* and null, and throws a TypeError on any other parameter before it runs
Bindable(value) == value.type = "string"

\* the row SELECT ... AND name = ? AND is_active = 1 returns with .get(): the
\* first match in rowid order, 0 if there is none
ExistingPrompt(req, name) ==
    LET matches == {p \in 1..Len(prompt_templates) :
                       /\ Owns(prompt_templates[p], req)
                       /\ prompt_templates[p].name = name.text
                       /\ prompt_templates[p].is_active = 1}
    IN IF matches = {} THEN 0 ELSE CHOOSE p \in matches : \A q \in matches : p <= q

\* UPDATE prompt_templates SET is_active = 0 WHERE id = existing.id, when
\* there is an existing row
Deactivated(existing) ==
    [p \in 1..Len(prompt_templates) |->
        IF p = existing THEN [prompt_templates[p] EXCEPT !.is_active = 0] ELSE prompt_templates[p]]

\* POST /api/prompts.  The handler runs its three statements one after the
\* other outside a transaction; an exception thrown by a statement leaves
\* the handler and is answered 500 by the framework.
CreatePrompt(auth, name, template) ==
    LET req == validateApiKey(accounts, auth)
        existing == ExistingPrompt(req, name)
        version == IF existing # 0 THEN prompt_templates[existing].version + 1 ELSE 1
    IN
    /\ accounts' = req.accounts
    /\ issued' = issued \cup IssuedBy(auth, req)
    /\ UNCHANGED <<tasks, calls, ledger>>
    /\ IF ~req.ok
       THEN /\ resp' = [op |-> "prompt", id |-> NULLID, code |-> 401]
            /\ UNCHANGED prompt_templates
       ELSE IF ~JsonTruthy(name) \/ ~JsonTruthy(template)
       THEN /\ resp' = [op |-> "prompt", id |-> NULLID, code |-> 400]
            /\ UNCHANGED prompt_templates
       ELSE IF ~Bindable(name)
       THEN /\ resp' = [op |-> "prompt", id |-> NULLID, code |-> 500]
            /\ UNCHANGED prompt_templates
       ELSE IF ~Bindable(template)
       THEN /\ resp' = [op |-> "prompt", id |-> NULLID, code |-> 500]
            /\ prompt_templates' = Deactivated(existing)
       ELSE /\ prompt_templates' =
                  Append(Deactivated(existing),
                         [api_key_id |-> req.apiKeyId, account_id |-> getAccountId(req),
                          name |-> name.text, template |-> template.text,
                          version |-> version, is_active |-> 1])
            /\ resp' = [op |-> "prompt", id |-> Len(prompt_templates) + 1, code |-> 200,
                        version |-> version]

-----------------------------------------------------------------------------
(* Specifications *)

Init ==
    /\ accounts = <<>>
    /\ tasks = <<>>
    /\ calls = <<>>
    /\ ledger = <<>>
    /\ issued = {}
    /\ prompt_templates = <<>>
    /\ resp = [op |-> "none", id |-> NULLID, code |-> 0]

\* The client task API on its own.  Spans reach every status through
\* /api/track, so the complete calls carry one terminal status, one status
\* that is not terminal and one body without durationMs.
ClientCompleteBodies == {b \in CompleteBodies : b.status \in {"slow", "running"} \/ ~b.hasDuration}

Next ==
    \/ \E auth \in ClientAuths, body \in TrackBodies : Len(tasks) < MaxTasks /\ Track(auth, body)
    \/ \E auth \in ClientAuths, body \in StartBodies : Len(tasks) < MaxTasks /\ StartTask(auth, body)
    \/ \E auth \in ClientAuths, target \in 1..(MaxTasks + 1), body \in ClientCompleteBodies :
          CompleteTask(auth, target, body)

Spec == Init /\ [][Next]_vars

\* The proxy handlers, interleaved at their awaits with one another, with the
\* client's complete calls and with account lookups.
ProxyAuths == {NoAuth, Bearer(KeyOpenAI), Bearer(KeyAnthropic)}

ProxyRequests ==
    {ChatRequest(auth, ModelGpt, TRUE, stream) : auth \in ProxyAuths, stream \in BOOLEAN}
        \cup {ChatRequest(Bearer(KeyOpenAI), <<>>, TRUE, FALSE)}

ProxyMessagesRequests ==
    {ChatRequest(Bearer(KeyAnthropic), ModelClaude, TRUE, stream) : stream \in BOOLEAN}
        \cup {ChatRequest(NoAuth, ModelClaude, TRUE, FALSE), ChatRequest(Bearer(KeyAnthropic), ModelClaude, FALSE, FALSE)}

\* the text delta an upstream of the call's wire format sends
ProxyFrames(c) ==
    IF c.endpoint = "chat" /\ c.provider # "anthropic"
    THEN {Frame("chunk", "a", 0)}
    ELSE {Frame("content_block_delta", "a", 0)}

ProxyCompleteBodies == {b \in CompleteBodies : b.status \in {"slow", "running"}}

\* the proxy requests of a behaviour are sent one after the other: the next
\* one when no handler is between two awaits
Idle == \A i \in TaskIds : calls[i].pc \in {"none", "done"}

NextProxy ==
    \/ \E r \in ProxyRequests : Idle /\ ChatStart(r, MaxCalls)
    \/ \E r \in ProxyMessagesRequests : Idle /\ MessagesStart(r, MaxCalls)
    \/ \E id \in 1..MaxCalls, outcome \in {"neterr", "non2xx", "ok"} : FetchReturns(id, outcome)
    \/ \E id \in 1..MaxCalls, outcome \in {"badjson", "null", "json"} : BodyReturns(id, outcome)
    \/ \E id \in TaskIds : \E f \in ProxyFrames(calls[id]) : ReadLine(id, f, MaxReads)
    \/ \E id \in 1..MaxCalls : ReadDone(id)
    \/ \E id \in 1..MaxCalls : ReadFails(id)
    \/ \E auth \in {Bearer(KeyOpenAI), Bearer(KeyAnthropic)}, target \in 1..MaxCalls,
          body \in ProxyCompleteBodies : CompleteTask(auth, target, body)

SpecProxy == Init /\ [][NextProxy]_vars

\* One streaming call per behaviour, for every provider and both endpoints,
\* fed every kind of line its upstream's wire format allows.
StreamRequests ==
    {ChatRequest(Bearer(key), ModelGpt, TRUE, TRUE) : key \in {KeyOpenAI, KeyAnthropic, KeyGoogle, KeyXai}}
        \cup {ChatRequest(Bearer(KeyUnknown), ModelRouted, TRUE, TRUE)}

AnthropicFrames ==
    {Frame("message_start", "", 2), Frame("message_start", "", Absent),
     Frame("content_block_delta", "a", 0), Frame("content_block_delta", "", 0),
     Frame("content_block_delta", NULLS, 0),
     Frame("message_delta", "", 1), Frame("message_delta", "", Absent),
     Frame("message_stop", "", 0), DoneFrame, Frame("notjson", "", 0), Frame("jsonnull", "", 0),
     Frame("chunk", "c", 0), Frame("event", "", 0), Frame("blank", "", 0)}

OpenAIFrames ==
    {Frame("chunk", "a", 0), Frame("chunk", "", 0), Frame("chunk", NULLS, 0), DoneFrame,
     Frame("notjson", "", 0), Frame("jsonnull", "", 0), Frame("message_stop", "", 0),
     Frame("blank", "", 0)}

StreamFrames(c) ==
    IF c.endpoint = "chat" /\ c.provider # "anthropic" THEN OpenAIFrames ELSE AnthropicFrames

NextStream ==
    \/ \E r \in StreamRequests : tasks = <<>> /\ ChatStart(r, MaxCalls)
    \/ tasks = <<>> /\ MessagesStart(ChatRequest(Bearer(KeyAnthropic), ModelClaude, TRUE, TRUE), MaxCalls)
    \/ \E id \in TaskIds, outcome \in {"non2xx", "ok"} : FetchReturns(id, outcome)
    \/ \E id \in TaskIds : BodyReturns(id, "json")
    \/ \E id \in TaskIds : \E f \in StreamFrames(calls[id]) : ReadLine(id, f, MaxFrames)
    \/ \E id \in TaskIds : ReadDone(id)
    \/ \E id \in TaskIds : ReadFails(id)

SpecStream == Init /\ [][NextStream]_vars

\* One streaming chat call routed to Anthropic whose upstream sends only
\* well-formed events.
RelayFrames ==
    {Frame("message_start", "", 2), Frame("content_block_delta", "a", 0),
     Frame("content_block_delta", "b", 0), Frame("content_block_delta", "", 0),
     Frame("message_delta", "", 1), Frame("message_stop", "", 0)}

NextRelay ==
    \/ tasks = <<>> /\ ChatStart(ChatRequest(Bearer(KeyAnthropic), ModelClaude, TRUE, TRUE), MaxCalls)
    \/ \E id \in TaskIds : FetchReturns(id, "ok")
    \/ \E id \in TaskIds, f \in RelayFrames : ReadLine(id, f, MaxEvents)
    \/ \E id \in TaskIds : ReadDone(id)

SpecRelay == Init /\ [][NextRelay]_vars

\* Every handler that reaches the accounts table, with the same few
\* credentials presented in every way the API accepts them.
AccountKeys == {KeyOpenAI, KeyAnthropic, KeyUnknown}

NextAccounts ==
    \/ \E key \in AccountKeys, body \in ProxyCompleteBodies : CompleteTask(Bearer(key), 1, body)
    \/ \E key \in AccountKeys :
          Idle /\ ChatStart(ChatRequest(Bearer(key), ModelGpt, TRUE, FALSE), MaxCalls)
    \/ \E key \in AccountKeys \cup {<<>>} :
          Idle /\ MessagesStart(ChatRequest(Bearer(key), ModelClaude, TRUE, FALSE), MaxCalls)
    \/ \E id \in 1..MaxCalls : FetchReturns(id, "neterr")
    \/ \E key \in AccountKeys, provider \in {"openai", "xai", "bogus", NULLS} :
          Lookup(hashKey(key), provider)

SpecAccounts == Init /\ [][NextAccounts]_vars

\* The client task API with parents and traces: spans logged and started
\* by two callers under a trace id of their own, naming as parent a span
\* already stored or a string that is no span's id; retries, which open a
\* trace of their own; and trace assembly.
TraceAuths == {Bearer(LegacyKey), Bearer(KeyOpenAI)}

CallerTrace == 1

PromptHi == <<"h", "i">>

PromptNew == <<"n", "e", "w">>

ParentIds == TaskIds \cup {NULLID, UnknownId, ProtoId}

NextTrace ==
    \/ \E auth \in TraceAuths, parent \in ParentIds :
          /\ Len(tasks) < MaxSpans
          /\ Track(auth, TrackBody(TRUE, "success", parent, CallerTrace, ModelGpt, PromptHi))
    \/ \E parent \in TaskIds \cup {NULLID} :
          /\ Len(tasks) < MaxSpans
          /\ StartTask(Bearer(LegacyKey), StartBody(TRUE, parent, CallerTrace))
    \/ \E auth \in TraceAuths, target \in 1..MaxSpans, modified \in {<<>>, PromptNew} :
          /\ Len(tasks) < MaxSpans
          /\ Retry(auth, target, modified)
    \/ \E auth \in TraceAuths : GetTrace(auth, CallerTrace)

SpecTrace == Init /\ [][NextTrace]_vars

\* Spans logged into one trace by two callers with their measures (status,
\* durationMs, cost, tokens_in, tokens_out), and the trace read by either.
Measures == {<<"success", 1, 0, 0, 0>>, <<"failed", 2, 1, 1, 2>>, <<"running", 0, 2, 2, 1>>}

SummaryBodies ==
    {MeasuredBody(TrackBody(TRUE, m[1], NULLID, CallerTrace, ModelGpt, PromptHi), m[2], m[3], m[4], m[5]) :
        m \in Measures}

NextSummary ==
    \/ \E auth \in TraceAuths, body \in SummaryBodies : Len(tasks) < MaxSpans /\ Track(auth, body)
    \/ \E auth \in TraceAuths : GetTrace(auth, CallerTrace)

SpecSummary == Init /\ [][NextSummary]_vars

\* Proxy calls and replays whose upstream answers with an error body of any
\* of three lengths, or fails in the other ways.
ErrorBodies == {<<>>, <<"n", "o">>, [i \in 1..(ErrorBodyLimit + 1) |-> "x"]}

NextErrors ==
    \/ \E r \in ProxyRequests : Idle /\ Len(tasks) < MaxTasks /\ ChatStart(r, MaxTasks)
    \/ \E r \in ProxyMessagesRequests : Idle /\ Len(tasks) < MaxTasks /\ MessagesStart(r, MaxTasks)
    \/ \E auth \in {Bearer(LegacyKey), Bearer(KeyOpenAI)}, target \in 1..MaxTasks, headerKey \in {<<>>, KeyAnthropic} :
          /\ Idle
          /\ Len(tasks) \in 1..(MaxTasks - 1)
          /\ ReplayStart(auth, target, headerKey)
    \/ \E id \in TaskIds, body \in ErrorBodies : FetchRejects(id, body)
    \/ \E id \in TaskIds, outcome \in {"neterr", "ok"} : FetchReturns(id, outcome)
    \/ \E id \in TaskIds, outcome \in {"badjson", "json"} : BodyReturns(id, outcome)
    \/ \E id \in TaskIds : ReadFails(id)
    \/ \E id \in TaskIds : ReadDone(id)

SpecErrors == Init /\ [][NextErrors]_vars

\* Chat calls whose credential is of no family, so that the model decides the
\* provider, for models written provider/model and models without separator.
RoutedModels ==
    {ModelRouted, <<"M", "/", "X">>, <<"m", "e", "t", "a", "/", "l", "l", "a", "m", "a">>,
     <<"o", "p", "e", "n", "a", "i", "/", "g", "p", "t", "-", "4", "o">>,
     <<"g", "p", "t", "-", "4", "/", "x">>,
     <<"a", "n", "t", "h", "r", "o", "p", "i", "c", "/", "c", "l", "a", "u", "d", "e", "-", "3">>,
     <<"c", "l", "a", "u", "d", "e", "-", "3", "/", "x">>,
     <<"l", "l", "a", "m", "a">>}

NextRoute ==
    \/ \E model \in RoutedModels, stream \in BOOLEAN :
          Idle /\ ChatStart(ChatRequest(Bearer(KeyUnknown), model, TRUE, stream), MaxTasks)
    \/ \E id \in TaskIds, outcome \in {"neterr", "ok"} : FetchReturns(id, outcome)
    \/ \E id \in TaskIds : BodyReturns(id, "json")
    \/ \E id \in TaskIds : ReadDone(id)

SpecRoute == Init /\ [][NextRoute]_vars

\* One chat call per behaviour, not streamed, that goes to Anthropic or to
\* Google; the upstream answers with every terminal reason of its vocabulary,
\* or with none.
AnswerReasons(provider) ==
    IF provider = "anthropic" THEN {"end_turn", "max_tokens", "stop_sequence", "tool_use", NULLS}
    ELSE {"STOP", "MAX_TOKENS", "SAFETY", "RECITATION", NULLS}

UpstreamAnswers(provider) ==
    {UpstreamAnswer(reason, text, tokensIn, tokensOut) :
        reason \in AnswerReasons(provider), text \in {"ok", NULLS},
        tokensIn \in {1, 2, Absent}, tokensOut \in {1, 2, Absent}}

NextAnswer ==
    \/ \E key \in {KeyAnthropic, KeyGoogle} :
          tasks = <<>> /\ ChatStart(ChatRequest(Bearer(key), ModelGpt, TRUE, FALSE), MaxCalls)
    \/ \E id \in TaskIds, outcome \in {"neterr", "non2xx", "ok"} : FetchReturns(id, outcome)
    \/ \E id \in TaskIds : \E answer \in UpstreamAnswers(calls[id].provider) : BodyReturnsAnswer(id, answer)

SpecAnswer == Init /\ [][NextAnswer]_vars

\* Replay: one span stored first, either logged by the legacy caller with a
\* prompt and no snapshot or opened by a proxy call with its snapshot, then
\* replayed by either caller, with the upstream's answers and the callers'
\* complete calls interleaved.
RoleTool == <<"t", "o", "o", "l">>

ReplayRoles == {RoleSystem, RoleUser, RoleAssistant, RoleTool}

ReplayContents ==
    {<<"h", "i">>, <<" ", "h", "i">>, <<"a", LF, "b">>, <<"a", " ", LF, "b">>,
     <<"a", LF, "u", "s", "e", "r", ":", "b">>, <<>>}

ReplayMessages == {Message(role, content) : role \in ReplayRoles, content \in ReplayContents}

ReplayMessageSeqs ==
    {<<m>> : m \in ReplayMessages}
        \cup {<<Message(role, content), Message(RoleAssistant, <<"y", "o">>)>> :
                 role \in {RoleSystem, RoleTool}, content \in ReplayContents}

\* a prompt without role tags
BarePrompt == <<"h", "i", LF, "y", "o">>

ReplayPrompts == {JoinLines(msgs) : msgs \in ReplayMessageSeqs} \cup {BarePrompt, <<>>}

ReplayAuths == {Bearer(LegacyKey), Bearer(KeyOpenAI)}

NextReplay ==
    \/ \E prompt \in ReplayPrompts :
          /\ tasks = <<>>
          /\ Track(Bearer(LegacyKey), TrackBody(TRUE, "success", NULLID, NULLID, ModelGpt, prompt))
    \/ tasks = <<>> /\ ChatStart(ChatRequest(Bearer(KeyOpenAI), ModelGpt, TRUE, FALSE), MaxCalls)
    \/ \E auth \in ReplayAuths, target \in 1..MaxReplays, headerKey \in {<<>>, KeyAnthropic} :
          /\ Idle
          /\ Len(tasks) \in 1..MaxReplays
          /\ ReplayStart(auth, target, headerKey)
    \/ \E id \in TaskIds, outcome \in {"neterr", "non2xx", "ok"} : FetchReturns(id, outcome)
    \/ \E id \in TaskIds, outcome \in {"badjson", "null", "json"} : BodyReturns(id, outcome)
    \/ \E auth \in ReplayAuths, target \in TaskIds :
          \E body \in {b \in ProxyCompleteBodies : b.status = "slow"} : CompleteTask(auth, target, body)

SpecReplay == Init /\ [][NextReplay]_vars

\* Every handler that stores a span, called by one provider-key caller: the
\* proxy calls one after the other, each ended by a failed fetch.
NextCreate ==
    \/ \E status \in Statuses :
          /\ Len(tasks) < MaxSpans
          /\ Track(Bearer(KeyOpenAI), TrackBody(TRUE, status, NULLID, NULLID, ModelGpt, PromptHi))
    \/ Len(tasks) < MaxSpans /\ StartTask(Bearer(KeyOpenAI), StartBody(TRUE, NULLID, NULLID))
    \/ \E target \in 1..MaxSpans : Len(tasks) < MaxSpans /\ Retry(Bearer(KeyOpenAI), target, <<>>)
    \/ Idle /\ ChatStart(ChatRequest(Bearer(KeyOpenAI), ModelGpt, TRUE, FALSE), MaxSpans)
    \/ Idle /\ MessagesStart(ChatRequest(Bearer(KeyOpenAI), ModelClaude, TRUE, FALSE), MaxSpans)
    \/ \E target \in 1..MaxSpans :
          Idle /\ Len(tasks) < MaxSpans /\ ReplayStart(Bearer(KeyOpenAI), target, <<>>)
    \/ \E id \in TaskIds : FetchReturns(id, "neterr")

SpecCreate == Init /\ [][NextCreate]_vars

\* One streaming call per behaviour, on either endpoint, whose caller may
\* close the connection between any two reads.
DisconnectFrames(c) == ProxyFrames(c) \cup {DoneFrame}

NextDisconnect ==
    \/ \E key \in {KeyOpenAI, KeyAnthropic} :
          tasks = <<>> /\ ChatStart(ChatRequest(Bearer(key), ModelGpt, TRUE, TRUE), MaxCalls)
    \/ tasks = <<>> /\ MessagesStart(ChatRequest(Bearer(KeyAnthropic), ModelClaude, TRUE, TRUE), MaxCalls)
    \/ \E id \in TaskIds : FetchReturns(id, "ok")
    \/ \E id \in TaskIds : \E f \in DisconnectFrames(calls[id]) : ReadLine(id, f, MaxFrames)
    \/ \E id \in TaskIds : ReadDone(id)
    \/ \E id \in TaskIds : ReadFails(id)
    \/ \E id \in TaskIds : Disconnect(id)

SpecDisconnect == Init /\ [][NextDisconnect]_vars

\* The proxy handlers given bodies whose model and messages are truthy but
\* of any JSON type, one call after the other.  A model that is not a string
\* comes with a credential of no known prefix, so that the model decides the
\* provider.
ModelNumber == <<"5">>

ShapedRequests ==
    {ShapedRequest(Bearer(key), ModelGpt, TRUE, isArray) : key \in {KeyOpenAI, KeyUnknown}, isArray \in BOOLEAN}
        \cup {ShapedRequest(Bearer(KeyUnknown), ModelNumber, FALSE, isArray) : isArray \in BOOLEAN}

ShapedMessagesRequests ==
    {ShapedRequest(Bearer(key), ModelClaude, TRUE, isArray) : key \in {KeyAnthropic, KeyUnknown}, isArray \in BOOLEAN}

NextShape ==
    \/ \E r \in ShapedRequests : Idle /\ ChatStart(r, MaxTasks)
    \/ \E r \in ShapedMessagesRequests : Idle /\ MessagesStart(r, MaxTasks)
    \/ \E id \in TaskIds, outcome \in {"neterr", "non2xx", "ok"} : FetchReturns(id, outcome)
    \/ \E id \in TaskIds, outcome \in {"badjson", "null", "json"} : BodyReturns(id, outcome)

SpecShape == Init /\ [][NextShape]_vars

\* One call per behaviour that does not stream, on either endpoint, for
\* models the cost tables hold, models they match by substring, models they
\* do not match and a model named like an inherited property; the upstream
\* reports every pair of token counts up to MaxTokens.
CostModels ==
    {<<"g", "p", "t", "-", "4", "o", "-", "m", "i", "n", "i">>,
     <<"g", "p", "t", "-", "4", "o", "-", "m", "i", "n", "i", "-", "1">>,
     <<"g", "p", "t", "-", "4", "x">>,
     <<"g", "r", "o", "k", "-", "2">>,
     <<"o", "1">>,
     <<"z", "z">>,
     <<"c", "o", "n", "s", "t", "r", "u", "c", "t", "o", "r">>}

AnthropicCostModels ==
    {<<"c", "l", "a", "u", "d", "e", "-", "3", "-", "5", "-", "h", "a", "i", "k", "u">>,
     <<"c", "l", "a", "u", "d", "e", "-", "o", "p", "u", "s", "-", "4", "-", "2", "0", "2", "5", "0", "1", "0", "1">>,
     <<"c", "l", "a", "u", "d", "e", "-", "x">>,
     <<"c", "l", "a", "u", "d", "e", "-", "3", "-", "o", "p", "u", "s", "-", "2", "0", "2", "4", "0", "2", "2", "9">>,
     <<"t", "o", "S", "t", "r", "i", "n", "g">>}

NextCost ==
    \/ \E model \in CostModels :
          tasks = <<>> /\ ChatStart(ChatRequest(Bearer(KeyOpenAI), model, TRUE, FALSE), MaxCalls)
    \/ \E model \in AnthropicCostModels :
          tasks = <<>> /\ MessagesStart(ChatRequest(Bearer(KeyAnthropic), model, TRUE, FALSE), MaxCalls)
    \/ \E id \in TaskIds, outcome \in {"neterr", "non2xx", "ok"} : FetchReturns(id, outcome)
    \/ \E id \in TaskIds, tokensIn \in 0..MaxTokens, tokensOut \in 0..MaxTokens :
          BodyReturnsUsage(id, tokensIn, tokensOut)

SpecCost == Init /\ [][NextCost]_vars

\* The client task API called with credentials of every prefix family, at
\* the edges of the prefix tests and of no family; the provider the
\* middleware detects is the one stored on the account it creates.
KeySamples ==
    {LegacyKey, KeyOpenAI, KeyAnthropic, KeyGoogle, KeyXai, KeyUnknown, KeyAntBare, KeySkBare,
     <<>>, <<"S", "K", "-", "1">>, <<"a", "i", "z", "a", "1">>, <<"x", "a", "i">>,
     <<" ", "s", "k", "-", "1">>}

NextKeys ==
    \/ \E key \in KeySamples :
          /\ Len(tasks) < MaxTasks
          /\ Track(Bearer(key), TrackBody(TRUE, "success", NULLID, NULLID, <<>>, <<>>))
    \/ \E key \in KeySamples :
          Len(tasks) < MaxTasks /\ StartTask(Bearer(key), StartBody(TRUE, NULLID, NULLID))

SpecKeys == Init /\ [][NextKeys]_vars

\* One chat call per behaviour that goes to Anthropic or to Google, for
\* every array of up to MaxTurns messages of the four roles.
ConvertMessages ==
    {Message(role, content) :
        role \in {RoleSystem, RoleUser, RoleAssistant, RoleTool}, content \in {<<"a">>, <<"b">>}}

ConvertMessageSeqs == UNION {[1..n -> ConvertMessages] : n \in 0..MaxTurns}

NextConvert ==
    \/ \E key \in {KeyAnthropic, KeyGoogle}, messages \in ConvertMessageSeqs :
          tasks = <<>> /\ ChatStart(ChatRequestOf(Bearer(key), ModelGpt, messages), MaxCalls)
    \/ \E id \in TaskIds, outcome \in {"neterr", "non2xx", "ok"} : FetchReturns(id, outcome)
    \/ \E id \in TaskIds : BodyReturns(id, "json")

SpecConvert == Init /\ [][NextConvert]_vars

\* One streaming call per behaviour whose upstream body is one of a few wire
\* texts, delivered in reads of every length; some texts end in a line feed,
\* the others end inside their last line.
DataLine(payload) == DataPrefix \o payload

EventLine == <<"e", ":", "x">>

OpenAITexts ==
    {DataLine(<<"{", "a">>) \o <<LF, LF>> \o DataLine(<<"{", "b">>) \o <<LF, LF>> \o DataLine(<<"[", "D">>) \o <<LF, LF>>,
     DataLine(<<"{", "a">>) \o <<LF, LF>> \o DataLine(<<"{", "b">>)}

AnthropicTexts ==
    {EventLine \o <<LF>> \o DataLine(<<"{", "S">>) \o <<LF, LF>> \o DataLine(<<"{", "A">>) \o <<LF>>
         \o DataLine(<<"{", "M">>) \o <<LF>> \o DataLine(<<"{", "P">>) \o <<LF>>,
     DataLine(<<"{", "S">>) \o <<LF>> \o DataLine(<<"{", "A">>) \o <<LF>> \o DataLine(<<"{", "A">>)}

SplitTexts(c) ==
    IF c.endpoint = "chat" /\ c.provider # "anthropic" THEN OpenAITexts ELSE AnthropicTexts

NextSplit ==
    \/ \E key \in {KeyOpenAI, KeyAnthropic} :
          tasks = <<>> /\ ChatStart(ChatRequest(Bearer(key), ModelGpt, TRUE, TRUE), MaxCalls)
    \/ tasks = <<>> /\ MessagesStart(ChatRequest(Bearer(KeyAnthropic), ModelClaude, TRUE, TRUE), MaxCalls)
    \/ \E id \in TaskIds : \E text \in SplitTexts(calls[id]) : FetchStreams(id, text)
    \/ \E id \in TaskIds : \E n \in 1..Len(calls[id].upstream) : ReadChunk(id, n)
    \/ \E id \in TaskIds : ReadDone(id)

SpecSplit == Init /\ [][NextSplit]_vars

\* Three owners, a legacy key and two provider keys, each logging running
\* spans and each asking for every span by id: complete, retry, replay, the
\* span and the list.  A replay that started is ended by a failed fetch.
OwnerAuths == {Bearer(LegacyKey), Bearer(KeyOpenAI), Bearer(KeyAnthropic)}

\* parseInt(req.query.limit) || 100
DefaultLimit == 100

\* since and limit of a GET /api/tasks: the defaults, and the rows after the
\* first one a row at a time
ListPages == {<<0, DefaultLimit>>, <<1, 1>>}

NextOwners ==
    \/ \E auth \in OwnerAuths :
          /\ Len(tasks) < MaxTasks
          /\ Track(auth, TrackBody(TRUE, "running", NULLID, CallerTrace, ModelGpt, PromptHi))
    \/ \E auth \in OwnerAuths, target \in TaskIds :
          \E body \in {b \in ProxyCompleteBodies : b.status = "slow"} : CompleteTask(auth, target, body)
    \/ \E auth \in OwnerAuths, target \in TaskIds :
          Len(tasks) < MaxTasks /\ Retry(auth, target, <<>>)
    \/ \E auth \in OwnerAuths, target \in TaskIds :
          Idle /\ Len(tasks) < MaxTasks /\ ReplayStart(auth, target, <<>>)
    \/ \E id \in TaskIds : FetchReturns(id, "neterr")
    \/ \E auth \in OwnerAuths, target \in TaskIds : GetTask(auth, target)
    \/ \E auth \in OwnerAuths, page \in ListPages : ListTasks(auth, page[1], page[2])

SpecOwners == Init /\ [][NextOwners]_vars

\* The streaming calls of SpecStream with an upstream that eventually
\* responds, sends its next line, ends its stream or fails, and an event
\* loop that then runs the continuation of the handler waiting on it.
UpstreamStep ==
    \/ \E id \in TaskIds, outcome \in {"non2xx", "ok"} : FetchReturns(id, outcome)
    \/ \E id \in TaskIds : BodyReturns(id, "json")
    \/ \E id \in TaskIds : \E f \in StreamFrames(calls[id]) : ReadLine(id, f, MaxFrames)
    \/ \E id \in TaskIds : ReadDone(id)
    \/ \E id \in TaskIds : ReadFails(id)

SpecStreamFair == SpecStream /\ WF_vars(UpstreamStep)

\* One caller logging finished spans, under a trace id of its own choice,
\* under the trace id of a span already stored or under none, with a stored
\* span or none as parent; retries and replays of the stored spans, a replay
\* ended by a failed fetch; and assembly of every trace that holds a span.
StoredTraces == {tasks[i].trace_id : i \in TaskIds}

NextLineage ==
    \/ \E parent \in TaskIds \cup {NULLID}, traceId \in StoredTraces \cup {NULLID, CallerTrace} :
          /\ Len(tasks) < MaxSpans
          /\ Track(Bearer(KeyOpenAI), TrackBody(TRUE, "success", parent, traceId, ModelGpt, PromptHi))
    \/ \E target \in TaskIds : Len(tasks) < MaxSpans /\ Retry(Bearer(KeyOpenAI), target, <<>>)
    \/ \E target \in TaskIds :
          Idle /\ Len(tasks) < MaxSpans /\ ReplayStart(Bearer(KeyOpenAI), target, <<>>)
    \/ \E id \in TaskIds : FetchReturns(id, "neterr")
    \/ \E traceId \in StoredTraces : GetTrace(Bearer(KeyOpenAI), traceId)

SpecLineage == Init /\ [][NextLineage]_vars

\* One caller logging 'pending' spans, retrying, completing and replaying
\* the stored spans, and making chat proxy calls, which the upstream answers
\* or fails.
NextPending ==
    \/ /\ Len(tasks) < MaxSpans
       /\ Track(Bearer(KeyOpenAI), TrackBody(TRUE, "pending", NULLID, NULLID, ModelGpt, PromptHi))
    \/ \E target \in TaskIds : Len(tasks) < MaxSpans /\ Retry(Bearer(KeyOpenAI), target, <<>>)
    \/ \E target \in TaskIds :
          \E body \in {b \in ProxyCompleteBodies : b.status = "slow"} :
              CompleteTask(Bearer(KeyOpenAI), target, body)
    \/ \E target \in TaskIds :
          Idle /\ Len(tasks) < MaxSpans /\ ReplayStart(Bearer(KeyOpenAI), target, <<>>)
    \/ Idle /\ ChatStart(ChatRequest(Bearer(KeyOpenAI), ModelGpt, TRUE, FALSE), MaxSpans)
    \/ \E id \in TaskIds, outcome \in {"neterr", "ok"} : FetchReturns(id, outcome)
    \/ \E id \in TaskIds : BodyReturns(id, "json")

SpecPending == Init /\ [][NextPending]_vars

\* rows stored in prompt_templates in a behaviour of SpecPrompts
MaxPrompts == 3

\* Two owners saving templates under two names; the name of a body is a
\* string, true or missing, its template a string, the empty string or true.
PromptNames == {JsonString("a"), JsonString("b"), JsonTrue, JsonMissing}

PromptBodies == {JsonString("t"), JsonString(""), JsonTrue}

NextPrompts ==
    \E auth \in {NoAuth, Bearer(LegacyKey), Bearer(KeyOpenAI)} :
        \E name \in PromptNames, template \in PromptBodies :
            Len(prompt_templates) < MaxPrompts /\ CreatePrompt(auth, name, template)

SpecPrompts == Init /\ [][NextPrompts]_vars

-----------------------------------------------------------------------------
(* Claims *)

\* C1: POST /api/tasks/:id/complete on a span that does not exist, or whose
\* status is not 'running', leaves every stored field of every span
\* unchanged, whatever the caller and the body; and when the request passes
\* the middleware and the body checks its response is the 404 'not found or
\* not in running state'.
C1_CompleteNotRunning ==
    [][\A auth \in ClientAuths, body \in ClientCompleteBodies :
          (/\ resp'.op = "complete"
           /\ (resp'.id \notin TaskIds \/ tasks[resp'.id].status # "running")
           /\ CompleteTask(auth, resp'.id, body))
          => /\ tasks' = tasks
             /\ (validateApiKey(accounts, auth).ok /\ CompleteBodyValid(body)
                    => resp'.code = 404)]_vars

\* a legacy caller's own span, already 'slow', was the target of a complete
\* call that was answered 404 (no provider account exists, so the caller that
\* passed the middleware is the legacy owner)
C1_Witness ==
    /\ Len(tasks) = 1
    /\ tasks[1].status = "slow"
    /\ tasks[1].api_key_id = ApiKeyId
    /\ accounts = <<>>
    /\ resp = [op |-> "complete", id |-> 1, code |-> 404]

\* C2: while a proxy call is in flight and its caller posts complete on the
\* same span, the span's status is written to a terminal value at most once
\* (ledger counts the writes that set a terminal status), so no stored field
\* changes after the first such write.
C2_SingleTerminalWrite == \A i \in TaskIds : ledger[i] <= 1

\* C3: a streaming proxy call whose stream ended (cleanly or truncated) or
\* whose read failed has executed exactly one finalising write, and that
\* write carries the completion text and the token counts accumulated so far.
C3_OneFinalWriteWithAccumulated ==
    \A i \in TaskIds :
        (/\ calls[i].pc = "done"
         /\ (calls[i].cause = "eof" \/ (calls[i].cause = "readerr" /\ calls[i].recv # <<>>)))
        => /\ Len(calls[i].finals) = 1
           /\ calls[i].finals[1].completion = calls[i].acc.completionText
           /\ calls[i].finals[1].tokens_in # Absent
           /\ calls[i].finals[1].tokens_out # Absent

\* C4: a proxy call whose upstream failed (fetch threw, non-2xx status,
\* unparsable body, read error after streaming started) ends with its span in
\* status 'failed'.
C4_UpstreamFailureEndsFailed ==
    \A i \in TaskIds :
        (calls[i].pc = "done" /\ calls[i].cause \in {"neterr", "non2xx", "badjson", "readerr"})
        => tasks[i].status = "failed"

\* the event sequence of C5: a start event, text deltas, a usage event and a
\* stop event
IsRelaySequence(recv) ==
    /\ Len(recv) >= 3
    /\ recv[1].k = "message_start" /\ recv[1].n # Absent
    /\ recv[Len(recv) - 1].k = "message_delta" /\ recv[Len(recv) - 1].n # Absent
    /\ recv[Len(recv)].k = "message_stop"
    /\ \A j \in 2..(Len(recv) - 2) : recv[j].k = "content_block_delta" /\ recv[j].text # NULLS

\* d1 .. dn
DeltasOf(recv) == [j \in 1..(Len(recv) - 3) |-> recv[j + 1].text]

RECURSIVE Concat(_)
Concat(texts) == IF texts = <<>> THEN "" ELSE Head(texts) \o Concat(Tail(texts))

IsChunk(f) == f.k \in {"chunk", "chunk_stop"}

IsNonEmpty(text) == text # ""

\* the chunks the caller received, the end marker left out
ChunksOf(out) == SelectSeq(out, IsChunk)

RelayedCalls ==
    {i \in TaskIds : /\ calls[i].endpoint = "chat" /\ calls[i].provider = "anthropic"
                     /\ calls[i].pc = "done" /\ calls[i].cause = "eof"
                     /\ IsRelaySequence(calls[i].recv)}

\* the span of C5 is finalised with the whole text and both counts
RelayedSpanIsWhole(i) ==
    /\ tasks[i].status = "success"
    /\ tasks[i].completion = Concat(DeltasOf(calls[i].recv))
    /\ tasks[i].tokens_in = calls[i].recv[1].n
    /\ tasks[i].tokens_out = calls[i].recv[Len(calls[i].recv) - 1].n

\* C5 as stated: the caller receives one chunk per text delta d1..dn, in
\* order, then one terminal chunk, and the span is finalised with
\* completion = d1 ++ ... ++ dn, tokens_in = i, tokens_out = o.
C5_RelayAsStated ==
    \A i \in RelayedCalls :
        /\ ChunksOf(calls[i].acc.out)
              = [j \in 1..Len(DeltasOf(calls[i].recv)) |-> Chunk(DeltasOf(calls[i].recv)[j])] \o <<StopChunk>>
        /\ RelayedSpanIsWhole(i)

\* C5 amended: the caller receives one chunk per non-empty text delta, in
\* order, then one terminal chunk (an empty delta is forwarded as no chunk),
\* and the span is finalised with completion = d1 ++ ... ++ dn,
\* tokens_in = i, tokens_out = o.
C5_RelayNonEmptyDeltas ==
    \A i \in RelayedCalls :
        LET sent == SelectSeq(DeltasOf(calls[i].recv), IsNonEmpty) IN
        /\ ChunksOf(calls[i].acc.out) = [j \in 1..Len(sent) |-> Chunk(sent[j])] \o <<StopChunk>>
        /\ calls[i].acc.out[Len(calls[i].acc.out)] = DoneFrame
        /\ RelayedSpanIsWhole(i)

\* a call that relayed start, "a", "b", usage, stop and was finalised
C5_Witness ==
    \E i \in RelayedCalls :
        calls[i].recv = <<Frame("message_start", "", 2), Frame("content_block_delta", "a", 0),
                          Frame("content_block_delta", "b", 0), Frame("message_delta", "", 1),
                          Frame("message_stop", "", 0)>>

AnthropicChatCalls ==
    {i \in TaskIds : calls[i].endpoint = "chat" /\ calls[i].provider = "anthropic" /\ calls[i].stream}

\* C6: in the Anthropic streaming branch of /v1/chat/completions, once the
\* stop event has been processed the caller has been sent the terminal chunk
\* and then the end marker, and nothing is written after them whatever lines
\* the upstream sends next.
C6_NothingAfterStop ==
    \A i \in AnthropicChatCalls :
        \A j \in 1..Len(calls[i].acc.out) :
            (calls[i].acc.out[j] = StopChunk /\ \A h \in 1..(j - 1) : calls[i].acc.out[h] # StopChunk)
            => /\ Len(calls[i].acc.out) = j + 1
               /\ calls[i].acc.out[j + 1] = DoneFrame

\* the number of lines of a sequence that are of the given kinds
CountOf(lines, kinds) == Cardinality({j \in 1..Len(lines) : lines[j].k \in kinds})

\* the upstream call of a finished chat call succeeded: a 2xx answer whose
\* body was either a JSON document that parsed, or a stream of well-formed
\* events of the provider's wire format that ran to its end
UpstreamSucceeded(c) ==
    \/ c.cause = "json"
    \/ /\ c.cause = "eof"
       /\ c.recv # <<>>
       /\ IF c.provider = "anthropic"
          THEN /\ \A j \in 1..Len(c.recv) :
                     /\ c.recv[j].k \in {"message_start", "content_block_delta", "message_delta",
                                         "message_stop", "event", "blank"}
                     /\ c.recv[j].n # Absent
                     /\ c.recv[j].text # NULLS
               /\ c.recv[Len(c.recv)].k = "message_stop"
               /\ CountOf(c.recv, {"message_stop"}) = 1
          ELSE /\ \A j \in 1..Len(c.recv) : c.recv[j].k \in {"chunk", "done", "blank"} /\ c.recv[j].text # NULLS
               /\ c.recv[Len(c.recv)].k = "done"
               /\ CountOf(c.recv, {"done"}) = 1

\* C7: a chat call with stream = true whose upstream call succeeded has
\* answered, whatever the provider, with SSE frames of which the last is the
\* done marker, and the done marker occurs exactly once.
C7_StreamEndsWithDone ==
    \A i \in TaskIds :
        (/\ calls[i].endpoint = "chat" /\ calls[i].stream
         /\ calls[i].pc = "done" /\ UpstreamSucceeded(calls[i]))
        => /\ calls[i].acc.out # <<>>
           /\ calls[i].acc.out[Len(calls[i].acc.out)] = DoneFrame
           /\ CountOf(calls[i].acc.out, {"done"}) = 1

\* a data line whose payload JSON.parse rejects, or accepts as a value of a
\* shape the loop of the call does not expect: null, an event of the other
\* wire format, a usage event without its usage, a delta without text
IsCorruptFrame(c, f) ==
    \/ f.k \in {"notjson", "jsonnull"}
    \/ f.k \in {"message_start", "message_delta"} /\ f.n = Absent
    \/ f.k = "content_block_delta" /\ f.text = NULLS
    \/ f.k = "chunk" /\ f.text = NULLS
    \/ f.k = "chunk" /\ (c.endpoint = "messages" \/ c.provider = "anthropic")
    \/ f.k = "message_stop" /\ c.endpoint = "chat" /\ c.provider # "anthropic"

\* C8: in every streaming loop, reading a corrupt data line changes neither
\* the accumulated completion text nor the token counts and leaves the loop
\* running, so the lines after it are processed as if it had not been sent.
C8_CorruptFrameSkipped ==
    [][\A i \in TaskIds :
          (/\ calls[i].pc = "stream"
           /\ Len(calls'[i].recv) = Len(calls[i].recv) + 1
           /\ IsCorruptFrame(calls[i], calls'[i].recv[Len(calls'[i].recv)]))
          => /\ calls'[i].pc = "stream"
             /\ calls'[i].acc.completionText = calls[i].acc.completionText
             /\ calls'[i].acc.tokensIn = calls[i].acc.tokensIn
             /\ calls'[i].acc.tokensOut = calls[i].acc.tokensOut]_vars

\* C9: the accounts table holds at most one row per key_hash, and every call
\* made with one key_hash (by the middleware, a proxy handler or the lookup
\* endpoint) was given the same account id.
C9_OneAccountPerKeyHash ==
    /\ \A a, b \in 1..Len(accounts) : accounts[a].key_hash = accounts[b].key_hash => a = b
    /\ \A p, q \in issued : p[1] = q[1] => p[2] = q[2]

\* two accounts exist; the first belongs to the OpenAI credential, a proxy
\* span was opened under it, and a lookup of the same hash answered with it
C9_Witness ==
    /\ Len(accounts) = 2
    /\ accounts[1].key_hash = hashKey(KeyOpenAI)
    /\ Len(tasks) >= 1 /\ tasks[1].account_id = accounts[1].id
    /\ resp = [op |-> "lookup", id |-> accounts[1].id, code |-> 200]
    /\ Cardinality(issued) = 2

\* the cells of the stored rows that hold text built by the handlers
StoredCells ==
    {accounts[a].key_hash : a \in 1..Len(accounts)}
        \cup {tasks[i].error : i \in TaskIds}
        \cup {tasks[i].model : i \in TaskIds}
        \cup {tasks[i].original_request.model : i \in TaskIds}

SpanInserted == Len(tasks') = Len(tasks) + 1

\* C11 as stated: every span is inserted in status 'running', or 'pending'
\* for a retry placeholder; none is inserted in a terminal status.
C11_CreatedRunningOrPending ==
    [][SpanInserted => tasks'[Len(tasks')].status \in {"running", "pending"}]_vars

\* C11, amended: a span inserted by a proxy call, a replay or tasks/start is
\* 'running', one inserted by a retry is 'pending', and one inserted by
\* POST /api/track carries the status of the request body, terminal or not.
C11_CreatedStatusByHandler ==
    [][SpanInserted =>
          IF calls'[Len(calls')].endpoint \in {"chat", "messages", "replay"}
          THEN tasks'[Len(tasks')].status = "running"
          ELSE IF resp'.op = "start" THEN tasks'[Len(tasks')].status = "running"
          ELSE IF resp'.op = "retry" THEN tasks'[Len(tasks')].status = "pending"
          ELSE /\ resp'.op = "track"
               /\ \E status \in Statuses :
                     /\ tasks'[Len(tasks')].status = status
                     /\ Track(Bearer(KeyOpenAI), TrackBody(TRUE, status, NULLID, NULLID, ModelGpt, PromptHi))]_vars

C11_Witness ==
    /\ Len(tasks) = 3
    /\ tasks[1].status = "slow"
    /\ resp = [op |-> "retry", id |-> 2, code |-> 200]
    /\ tasks[2].status = "pending"
    /\ tasks[2].parent_id = 1
    /\ calls[3].endpoint = "replay"
    /\ calls[3].pc = "fetch"
    /\ tasks[3].status = "running"

\* C12: every span with a non-null parent_id names a span that is stored and
\* was created before it.
C12_ParentExistedBefore ==
    \A i \in TaskIds : tasks[i].parent_id # NULLID => tasks[i].parent_id \in 1..(i - 1)

\* the number of places of a sequence that hold x
CountIn(q, x) == Cardinality({j \in 1..Len(q) : q[j] = x})

RECURSIVE SumOver(_, _)
SumOver(f, S) == IF S = {} THEN 0 ELSE LET x == CHOOSE y \in S : TRUE IN f[x] + SumOver(f, S \ {x})

\* how often span i occurs in the forest of a trace response: among the roots
\* and in the children arrays
Occurrences(r, i) ==
    CountIn(r.tree, i) + SumOver([p \in DOMAIN r.children |-> CountIn(r.children[p], i)], DOMAIN r.children)

\* the spans of the trace the caller owns, by what the rows hold
CallerOwns(auth, row) ==
    IF auth.key = LegacyKey THEN row.api_key_id = ApiKeyId
    ELSE \E a \in 1..Len(accounts) :
            accounts[a].key_hash = hashKey(auth.key) /\ row.account_id = accounts[a].id

OwnSpansOfTrace(auth, traceId) ==
    {i \in TaskIds : tasks[i].trace_id = traceId /\ CallerOwns(auth, tasks[i])}

\* C13: GET /api/traces/:traceId on a trace in which the caller owns a span
\* returns a forest in which every such span occurs exactly once: as a child
\* of the span its parent_id names when that span is among them, and as a
\* root otherwise.
C13_ForestHoldsEverySpanOnce ==
    [][\A auth \in TraceAuths :
          (/\ resp'.op = "trace"
           /\ OwnSpansOfTrace(auth, resp'.id) # {}
           /\ GetTrace(auth, resp'.id))
          => /\ resp'.code = 200
             /\ \A i \in OwnSpansOfTrace(auth, resp'.id) :
                   /\ Occurrences(resp', i) = 1
                   /\ IF tasks[i].parent_id \in OwnSpansOfTrace(auth, resp'.id)
                      THEN CountIn(resp'.children[tasks[i].parent_id], i) = 1
                      ELSE CountIn(resp'.tree, i) = 1]_vars


RebuiltReplays ==
    {r \in TaskIds : calls[r].endpoint = "replay"
                      /\ tasks[tasks[r].parent_id].original_request = NoRequest}

TagLess(prompt) == \A k \in 1..Len(SplitLines(prompt)) : TagOf(SplitLines(prompt)[k]) = <<>>

\* C14 as stated: the messages a replay rebuilds from the prompt are the
\* messages that were serialised into it as '<role>: <content>' lines, for
\* every message sequence; a prompt without role tags gives one user message.
C14_RebuildIsRoundTrip ==
    \A r \in RebuiltReplays :
        /\ \A msgs \in ReplayMessageSeqs :
              tasks[tasks[r].parent_id].prompt = JoinLines(msgs)
                  => tasks[r].original_request.messages = msgs
        /\ TagLess(tasks[tasks[r].parent_id].prompt)
              => \E content \in {tasks[tasks[r].parent_id].prompt, Trim(tasks[tasks[r].parent_id].prompt)} :
                    tasks[r].original_request.messages = <<Message(RoleUser, content)>>

\* a content the rebuild gives back: no white space around it or at the end
\* of its first line, and no role tag at the start of a later line
ContentSurvives(content) ==
    /\ Trim(content) = content
    /\ Trim(SplitLines(content)[1]) = SplitLines(content)[1]
    /\ \A k \in 2..Len(SplitLines(content)) : TagOf(SplitLines(content)[k]) = <<>>

SurvivesRebuild(msgs) ==
    \A k \in 1..Len(msgs) :
        msgs[k].role \in {RoleSystem, RoleUser, RoleAssistant} /\ ContentSurvives(msgs[k].content)

\* C14, amended: the round trip holds for the sequences whose roles are
\* system, user or assistant and whose contents have no white space around
\* them or at the end of their first line and no role tag at the start of a
\* later line; a prompt without role tags gives one user message holding the
\* trimmed prompt.
C14_RebuildIsRoundTripWhenTagged ==
    \A r \in RebuiltReplays :
        /\ \A msgs \in ReplayMessageSeqs :
              tasks[tasks[r].parent_id].prompt = JoinLines(msgs) /\ SurvivesRebuild(msgs)
                  => tasks[r].original_request.messages = msgs
        /\ TagLess(tasks[tasks[r].parent_id].prompt)
              => tasks[r].original_request.messages
                    = <<Message(RoleUser, Trim(tasks[tasks[r].parent_id].prompt))>>

C14_Witness ==
    /\ Len(tasks) = 2
    /\ tasks[1].original_request = NoRequest
    /\ tasks[1].prompt = JoinLines(<<Message(RoleSystem, <<"a", LF, "b">>), Message(RoleAssistant, <<"y", "o">>)>>)
    /\ calls[2].endpoint = "replay"
    /\ calls[2].pc = "done"
    /\ tasks[2].original_request.messages
          = <<Message(RoleSystem, <<"a", LF, "b">>), Message(RoleAssistant, <<"y", "o">>)>>

\* the checks of the replay handler, read off the stored rows: the span is
\* the caller's, a request can be had from it, and a provider key came with
\* the call
ReplayPasses(auth, target, headerKey) ==
    /\ target \in TaskIds
    /\ CallerOwns(auth, tasks[target])
    /\ \/ tasks[target].original_request # NoRequest
       \/ tasks[target].prompt # <<>> /\ tasks[target].model # <<>>
    /\ auth.key # LegacyKey \/ headerKey # <<>>

\* C16: a replay that passes its checks stores exactly one new span,
\* 'running', whose parent_id is the replayed span's id; when the replay
\* response goes out the new span is 'success' or 'failed'; no step of the
\* replay changes the replayed span.
C16_ReplayRunsToTerminal ==
    [][/\ \A auth \in ReplayAuths, target \in 1..MaxReplays, headerKey \in {<<>>, KeyAnthropic} :
            (ReplayPasses(auth, target, headerKey) /\ ReplayStart(auth, target, headerKey))
                => /\ Len(tasks') = Len(tasks) + 1
                   /\ SubSeq(tasks', 1, Len(tasks)) = tasks
                   /\ tasks'[Len(tasks')].status = "running"
                   /\ tasks'[Len(tasks')].parent_id = target
       /\ \A r \in TaskIds :
            (calls[r].endpoint = "replay" /\ calls'[r] # calls[r])
                => /\ tasks'[tasks[r].parent_id] = tasks[tasks[r].parent_id]
                   /\ calls'[r].ended => tasks'[r].status \in {"success", "failed"}
                   /\ calls'[r].pc = "done" => calls'[r].ended]_vars

C16_Witness ==
    /\ Len(tasks) = 2
    /\ calls[2].endpoint = "replay"
    /\ calls[2].ended
    /\ calls[2].code = 200
    /\ tasks[2].status = "success"
    /\ tasks[2].parent_id = 1
    /\ tasks[1].status = "success"

\* C17: once the caller has disconnected in mid-stream, the handler's next
\* step forwards nothing more and leaves the span finalised, not 'running',
\* with the completion and usage accumulated so far.
C17_DisconnectFinalisesSpan ==
    [][\A id \in TaskIds :
          (calls[id].gone /\ calls[id].pc = "stream" /\ calls'[id] # calls[id])
              => /\ calls'[id].acc.out = calls[id].acc.out
                 /\ tasks'[id].status # "running"
                 /\ tasks'[id].completion = calls[id].acc.completionText]_vars

\* C18: a request answered 400 for its body (required fields missing or
\* status invalid on track or complete) stores no span and changes no stored
\* row, account rows included.
C18_RejectedInputChangesNothing ==
    [][(resp'.op \in {"track", "complete"} /\ resp'.code = 400)
          => accounts' = accounts /\ tasks' = tasks]_vars

\* C19: a chat request with no bearer credential, or with one that starts
\* with none of the provider prefixes, is answered 401 before dispatch: no
\* account is created, no span opened and no upstream call made.
C19_UnrecognisedCredentialRejected ==
    [][\A auth \in {NoAuth, Bearer(KeyUnknown)} :
          ChatStart(ChatRequest(auth, ModelGpt, TRUE, FALSE), MaxCalls)
              => /\ resp'.code = 401
                 /\ accounts' = accounts
                 /\ tasks' = tasks
                 /\ calls' = calls]_vars

\* C20: for every body whose model and messages are truthy, of whatever JSON
\* type, no exception escapes a proxy handler: the handler answers the
\* request itself or opens a span, and every call it has finished was
\* answered and, unless it succeeded, recorded 'failed'.
C20_NoExceptionEscapes ==
    [][/\ \A r \in ShapedRequests :
            ChatStart(r, MaxTasks) => resp'.code \in {400, 401} \/ Len(tasks') = Len(tasks) + 1
       /\ \A r \in ShapedMessagesRequests :
            MessagesStart(r, MaxTasks) => resp'.code \in {400, 401} \/ Len(tasks') = Len(tasks) + 1
       /\ \A id \in TaskIds :
            (calls[id].pc # "done" /\ calls'[id].pc = "done")
                => calls'[id].ended /\ (calls'[id].code # 200 => tasks'[id].status = "failed")]_vars

\* C21: for the model and the token counts of every span a proxy call has
\* priced, the cost function of its endpoint gives no smaller a cost for
\* token counts that are no smaller, in each of its counts.
C21_CostIsMonotone ==
    \A i \in TaskIds :
        tasks[i].status = "success" =>
            \A a \in tasks[i].tokens_in..(MaxTokens + 1), b \in tasks[i].tokens_out..(MaxTokens + 1) :
                IF calls[i].endpoint = "messages"
                THEN \A c \in 0..1, d \in 0..1, c2 \in 0..1, d2 \in 0..1 :
                        (c <= c2 /\ d <= d2) =>
                            NumLeq(calculateAnthropicCost(tasks[i].original_request.model,
                                                          Usage(tasks[i].tokens_in, tasks[i].tokens_out, c, d)),
                                   calculateAnthropicCost(tasks[i].original_request.model, Usage(a, b, c2, d2)))
                ELSE NumLeq(calculateCost(tasks[i].original_request.model,
                                          tasks[i].tokens_in, tasks[i].tokens_out),
                            calculateCost(tasks[i].original_request.model, a, b))

\* the prefix families of C22 a credential belongs to
KeyFamilies(key) ==
    {p \in {"anthropic", "openai", "google", "xai"} :
        \/ p = "anthropic" /\ StartsWith(key, <<"s", "k", "-", "a", "n", "t", "-">>)
        \/ p = "openai" /\ StartsWith(key, <<"s", "k", "-">>)
                        /\ ~StartsWith(key, <<"s", "k", "-", "a", "n", "t", "-">>)
        \/ p = "google" /\ StartsWith(key, <<"A", "I", "z", "a">>)
        \/ p = "xai" /\ StartsWith(key, <<"x", "a", "i", "-">>)}

\* C22: a credential belongs to at most one prefix family; the middleware
\* stores the provider of that family on the account of the credential, and
\* answers 401, creating nothing, for a credential of no family that is not
\* a legacy key.
C22_KeyFamilyDecidesProvider ==
    [][\A key \in KeySamples \ {LegacyKey} :
          (resp'.op = "track"
           /\ Track(Bearer(key), TrackBody(TRUE, "success", NULLID, NULLID, <<>>, <<>>)))
              => /\ Cardinality(KeyFamilies(key)) <= 1
                 /\ IF KeyFamilies(key) = {}
                    THEN resp'.code = 401 /\ accounts' = accounts /\ tasks' = tasks
                    ELSE /\ resp'.code = 200
                         /\ \E a \in 1..Len(accounts') :
                               /\ accounts'[a].key_hash = hashKey(key)
                               /\ accounts'[a].provider \in KeyFamilies(key)
                               /\ tasks'[Len(tasks')].account_id = accounts'[a].id]_vars

C22_Witness ==
    /\ Len(accounts) = 2
    /\ accounts[1].key_hash = hashKey(KeyAnthropic)
    /\ accounts[1].provider = "anthropic"
    /\ accounts[2].key_hash = hashKey(KeyAntBare)
    /\ accounts[2].provider = "openai"
    /\ resp = [op |-> "track", id |-> 2, code |-> 200]

\* the provider C23 names for a model: that of the prefix family the model
\* starts with, the default openai when it starts with none
FamilyProvider(model) ==
    IF StartsWith(model, <<"g", "p", "t", "-">>) \/ StartsWith(model, <<"o", "1">>) THEN "openai"
    ELSE IF StartsWith(model, <<"c", "l", "a", "u", "d", "e", "-">>) THEN "anthropic"
    ELSE IF StartsWith(model, <<"g", "e", "m", "i", "n", "i", "-">>) THEN "google"
    ELSE IF StartsWith(model, <<"g", "r", "o", "k", "-">>) THEN "xai"
    ELSE "openai"

\* C23: whenever the chat handler has to take the provider from the model
\* (the credential is of no known prefix), detectProviderFromModel does not
\* fail, whatever the model is, and the call goes to the provider of the
\* model's prefix family, or to openai when the model is of no family.
C23_ModelDecidesProvider ==
    [][\A r \in ShapedRequests :
          (detectProviderFromKey(r.auth.key) = NULLS /\ r.messagesIsArray /\ ChatStart(r, MaxTasks))
              => /\ Len(calls') = Len(calls) + 1
                 /\ calls'[Len(calls')].provider = FamilyProvider(r.model)]_vars

\* the messages of a request that are not system messages, in order
RECURSIVE WithoutSystem(_)
WithoutSystem(messages) ==
    IF messages = <<>> THEN <<>>
    ELSE IF Head(messages).role = RoleSystem THEN WithoutSystem(Tail(messages))
    ELSE <<Head(messages)>> \o WithoutSystem(Tail(messages))

\* C24: the turns of the request sent to Anthropic or Google are the
\* request's non-system messages, in order and with their content, the role
\* assistant mapped to the upstream's model-output role and every other role
\* to user; a request without a system message is sent without a system
\* field.
C24_TurnsAreNonSystemMessages ==
    \A i \in TaskIds :
        (calls[i].endpoint = "chat" /\ calls[i].provider \in {"anthropic", "google"}) =>
            LET others == WithoutSystem(tasks[i].original_request.messages)
                turns == calls[i].sent.messages
                outputRole == IF calls[i].provider = "anthropic" THEN RoleAssistant ELSE RoleModel
            IN /\ Len(turns) = Len(others)
               /\ \A k \in 1..Len(others) :
                     /\ turns[k].content = others[k].content
                     /\ turns[k].role = IF others[k].role = RoleAssistant THEN outputRole ELSE RoleUser
               /\ (\A k \in 1..Len(tasks[i].original_request.messages) :
                        tasks[i].original_request.messages[k].role # RoleSystem)
                     => ~calls[i].sent.hasSystem

C24_Witness ==
    /\ Len(tasks) = 1
    /\ calls[1].provider = "google"
    /\ tasks[1].original_request.messages = <<Message(RoleTool, <<"a">>), Message(RoleAssistant, <<"b">>)>>
    /\ calls[1].sent = [messages |-> <<Message(RoleUser, <<"a">>), Message(RoleModel, <<"b">>)>>,
                        hasSystem |-> FALSE, system |-> <<>>]

\* the lines of a text, a last line without line feed included
AllLines(text) ==
    LET lines == SplitLines(text)
    IN IF lines[Len(lines)] = <<>> THEN SubSeq(lines, 1, Len(lines) - 1) ELSE lines

\* the lines of a text that end in a line feed
CompleteLines(text) == LET lines == SplitLines(text) IN SubSeq(lines, 1, Len(lines) - 1)

\* the text after the last line feed
AfterLastLF(text) == LET lines == SplitLines(text) IN lines[Len(lines)]

\* what the loop of call c has forwarded and accumulated when it is run on
\* the given lines from the start
LoopOn(c, lines) == ProcessLines([c EXCEPT !.acc = NewAcc], lines)

\* after every read, the frames forwarded and the text and counts
\* accumulated are those of the complete lines received, however the reads
\* were cut
ReadsAgree ==
    \A i \in TaskIds :
        calls[i].pc = "stream" /\ calls[i].upstream # <<>> =>
            calls[i].acc = LoopOn(calls[i], CompleteLines(calls[i].recv))

\* after every read, the carry-over is the text after the last line feed
BufferIsTail ==
    \A i \in TaskIds :
        calls[i].pc = "stream" /\ calls[i].upstream # <<>> =>
            calls[i].buffer = AfterLastLF(calls[i].recv)

\* when the stream has ended, every line of the body has been processed,
\* a last line without line feed like the others
FinalLineProcessed ==
    \A i \in TaskIds :
        calls[i].pc = "done" /\ calls[i].cause = "eof" /\ calls[i].upstream # <<>> =>
            /\ calls[i].acc = LoopOn(calls[i], AllLines(calls[i].upstream))
            /\ tasks[i].completion = calls[i].acc.completionText

\* C25: for every way of cutting the upstream body into reads, each streaming
\* loop forwards the same frames and accumulates the same completion text and
\* token counts; after each read the carry-over buffer holds only the text
\* after the last line feed received; and a last line that no line feed ends
\* is processed like any other line when the stream ends.
C25_ReadsSplitAnywhere == ReadsAgree /\ BufferIsTail /\ FinalLineProcessed

\* C25, the part about the reads alone: it holds for the three loops
C25_ReadsAgreeAndBufferIsTail == ReadsAgree /\ BufferIsTail

\* chunk.choices?.[0]?.delta?.content of a forwarded frame, "" when the frame
\* has none or its payload does not parse
DeltaContent(f) == IF f.k = "chunk" /\ Truthy(f.text) THEN f.text ELSE ""

RECURSIVE DeltaContents(_)
DeltaContents(frames) ==
    IF frames = <<>> THEN "" ELSE DeltaContent(Head(frames)) \o DeltaContents(Tail(frames))

OpenAICompatible(c) == c.endpoint = "chat" /\ c.stream /\ c.provider \in {"openai", "xai", "openrouter"}

\* C26: in the OpenAI-compatible streaming branch every frame (data line) the
\* upstream has sent is forwarded to the caller unchanged and in upstream
\* order, and the completion stored at finalisation is the concatenation, in
\* order, of the delta contents of the forwarded frames.
C26_OpenAIFramesForwardedInOrder ==
    \A i \in TaskIds :
        OpenAICompatible(calls[i]) /\ calls[i].upstream = <<>> =>
            /\ calls[i].pc \in {"stream", "done"} => calls[i].acc.out = SelectSeq(calls[i].recv, IsDataLine)
            /\ calls[i].pc = "done" /\ tasks[i].status = "success" =>
                  tasks[i].completion = DeltaContents(calls[i].acc.out)

C26_Witness ==
    \E i \in TaskIds :
        /\ OpenAICompatible(calls[i])
        /\ calls[i].provider = "xai"
        /\ calls[i].pc = "done"
        /\ calls[i].recv = <<Frame("chunk", "a", 0), Frame("notjson", "", 0), DoneFrame>>
        /\ calls[i].acc.out = calls[i].recv
        /\ tasks[i].status = "success"
        /\ tasks[i].completion = "a"

\* the edges of the status life cycle
StatusEdges ==
    {<<"pending", "running">>, <<"running", "success">>, <<"running", "failed">>, <<"running", "slow">>}

\* C27: every change of a stored span's status, by any operation in any
\* order, is one of the edges pending -> running, running -> success,
\* running -> failed, running -> slow.
C27_StatusMovesAlongEdges ==
    [][\A i \in TaskIds :
          i <= Len(tasks') /\ tasks'[i].status # tasks[i].status
              => <<tasks[i].status, tasks'[i].status>> \in StatusEdges]_vars

\* the rows a trace response lists
Listed(r) == SeqRange(r.spans)

TimesOf(r) == {tasks[i].created_at : i \in Listed(r)}

\* C28: for every trace returned by GET /api/traces/:traceId, span_count is
\* the number of spans in the flat list, the total duration, cost and token
\* counts are the sums over those spans, has_failures is true exactly when
\* one of them has status 'failed', and started_at / ended_at are the
\* earliest and the latest created_at among them.
C28_SummaryMatchesSpans ==
    (resp.op = "trace" /\ resp.code = 200) =>
        /\ resp.summary.span_count = Cardinality(Listed(resp))
        /\ resp.summary.span_count = Len(resp.spans)
        /\ resp.summary.total_duration_ms = SumOver([i \in Listed(resp) |-> tasks[i].duration_ms], Listed(resp))
        /\ resp.summary.total_cost = SumOver([i \in Listed(resp) |-> CostOrZero(tasks[i])], Listed(resp))
        /\ resp.summary.total_tokens_in = SumOver([i \in Listed(resp) |-> tasks[i].tokens_in], Listed(resp))
        /\ resp.summary.total_tokens_out = SumOver([i \in Listed(resp) |-> tasks[i].tokens_out], Listed(resp))
        /\ resp.summary.has_failures <=> \E i \in Listed(resp) : tasks[i].status = "failed"
        /\ resp.summary.started_at \in TimesOf(resp)
        /\ resp.summary.ended_at \in TimesOf(resp)
        /\ \A t \in TimesOf(resp) : resp.summary.started_at <= t /\ t <= resp.summary.ended_at

\* a trace of three spans of which the reader owns two, one of them failed
C28_Witness ==
    /\ resp.op = "trace"
    /\ resp.code = 200
    /\ Len(tasks) = 3
    /\ resp.spans = <<1, 3>>
    /\ resp.summary.has_failures
    /\ resp.summary.total_duration_ms = 3
    /\ resp.summary.total_tokens_out = 2
    /\ resp.summary.started_at < resp.summary.ended_at

\* the length of a text held as a sequence of pieces
RECURSIVE TextLength(_)
TextLength(text) ==
    IF text = <<>> THEN 0
    ELSE IF Len(text) = 1 THEN Len(text[1])
    ELSE LET half == Len(text) \div 2
         IN TextLength(SubSeq(text, 1, half)) + TextLength(SubSeq(text, half + 1, Len(text)))

\* the longest error text the failure path of /v1/messages stores for an
\* upstream error body: 'HTTP 500: ' and ErrorBodyLimit characters
ErrorTextBound == ErrorBodyLimit + TextLength(<<"HTTP ", "500", ": ">>)

ProxyOrReplay(c) == c.endpoint \in {"chat", "messages", "replay"}

\* C29: whenever a proxy call or a replay is finalised as failed, the error
\* text stored on the span is no longer than a fixed bound, whatever the
\* length of the upstream error body or of the exception message.
C29_StoredErrorIsBounded ==
    \A i \in TaskIds :
        ProxyOrReplay(calls[i]) /\ tasks[i].status = "failed"
            => TextLength(tasks[i].error) <= ErrorTextBound

\* C29 for /v1/messages alone, whose failure path cuts the body
C29_MessagesErrorIsBounded ==
    \A i \in TaskIds :
        calls[i].endpoint = "messages" /\ tasks[i].status = "failed"
            => TextLength(tasks[i].error) <= ErrorTextBound

\* the handler of call c has written stream output (and with it the response
\* headers) to the caller
OutputSent(c) == c.acc.out # <<>>

\* the handler of call c ended in its catch block
EndedInCatch(c) == c.pc = "done" /\ c.finals # <<>> /\ c.finals[Len(c.finals)].status = "failed"

KeyProviderUsedAndRecorded(key) ==
    KeyFamilies(key) # {} =>
        /\ calls'[Len(calls')].provider \in KeyFamilies(key)
        /\ tasks'[Len(tasks')].provider \in KeyFamilies(key)

\* C31, chat completions: the credential's family decides the provider the
\* call is dispatched to and the provider recorded on the span, whatever the
\* model
C31_ChatKeyDecidesProvider ==
    [][\A key \in {KeyAnthropic, KeyGoogle} :
          (Len(tasks') = Len(tasks) + 1 /\ ChatStart(ChatRequestOf(Bearer(key), ModelGpt, tasks'[Len(tasks')].original_request.messages), MaxCalls))
              => KeyProviderUsedAndRecorded(key)]_vars

\* C31: whenever the credential of a chat-completions or replay call matches
\* a credential-prefix family, the provider used for dispatch and recorded on
\* the span is the credential's provider, whatever the requested model name.
C31_KeyDecidesProvider ==
    [][/\ (Len(tasks') = Len(tasks) + 1
            /\ ChatStart(ChatRequest(Bearer(KeyOpenAI), ModelGpt, TRUE, FALSE), MaxCalls))
              => KeyProviderUsedAndRecorded(KeyOpenAI)
       /\ \A auth \in ReplayAuths, target \in 1..MaxReplays, headerKey \in {<<>>, KeyAnthropic} :
             (Len(tasks') = Len(tasks) + 1 /\ ReplayStart(auth, target, headerKey))
                 => KeyProviderUsedAndRecorded(IF validateApiKey(accounts, auth).providerKey # <<>>
                                               THEN validateApiKey(accounts, auth).providerKey
                                               ELSE headerKey)]_vars

Separator == <<"/">>

\* the markers lines 149-152 test before the separator
FamilyMarked(model) ==
    LET lower == toLowerCase(model) IN
    \/ Includes(lower, <<"o", "p", "e", "n", "a", "i">>)
    \/ \E prefix \in {<<"g", "p", "t", "-">>, <<"o", "1">>, <<"c", "l", "a", "u", "d", "e", "-">>,
                       <<"g", "e", "m", "i", "n", "i", "-">>, <<"g", "r", "o", "k", "-">>} :
          StartsWith(lower, prefix)

\* C32: for every model string that contains the separator '/', the provider
\* taken from the model is the routed any-model provider, openrouter.
C32_SeparatorMeansRouted ==
    \A i \in TaskIds :
        calls[i].endpoint = "chat" /\ Includes(tasks[i].original_request.model, Separator)
            => calls[i].provider = "openrouter"

\* C32 for the models with a separator that carry none of the markers tested
\* before it
C32_UnmarkedSeparatorMeansRouted ==
    \A i \in TaskIds :
        (/\ calls[i].endpoint = "chat"
         /\ Includes(tasks[i].original_request.model, Separator)
         /\ ~FamilyMarked(tasks[i].original_request.model))
            => calls[i].provider = "openrouter"

\* the keys of the cost table that match the model by containment
MatchingKeys(model) ==
    {k \in 1..Len(MODEL_COSTS) :
        Includes(model, MODEL_COSTS[k].key) \/ Includes(MODEL_COSTS[k].key, model)}

LongestMatchingKeys(model) ==
    {k \in MatchingKeys(model) :
        \A j \in MatchingKeys(model) : Len(MODEL_COSTS[j].key) <= Len(MODEL_COSTS[k].key)}

\* C33: when the model is not an exact key of the cost table and keys match
\* it by containment, calculateCost charges the rates of the longest
\* matching key.
C33_LongestKeyPrices ==
    \A i \in TaskIds :
        (/\ calls[i].endpoint = "chat"
         /\ tasks[i].status = "success"
         /\ OwnKey(MODEL_COSTS, tasks[i].original_request.model) = 0
         /\ tasks[i].original_request.model \notin InheritedNames
         /\ MatchingKeys(tasks[i].original_request.model) # {})
            => \E k \in LongestMatchingKeys(tasks[i].original_request.model) :
                  tasks[i].cost = Num(10 * (tasks[i].tokens_in * MODEL_COSTS[k].input
                                            + tasks[i].tokens_out * MODEL_COSTS[k].output))

CanonicalFinishReasons == {"stop", "length", "other"}

\* C34: for every upstream response, the finish_reason of the canonical
\* response built by convertFromAnthropic or convertFromGemini is one of
\* stop, length, other.
C34_FinishReasonIsCanonical ==
    (resp.op = "chat" /\ resp.code = 200) => resp.body.finish_reason \in CanonicalFinishReasons

\* C34 for the answers of Gemini alone
C34_GeminiFinishReasonIsCanonical ==
    (resp.op = "chat" /\ resp.code = 200 /\ calls[resp.id].provider = "google")
        => resp.body.finish_reason \in CanonicalFinishReasons

\* the columns C35 says a complete call leaves alone
KeptByComplete(row) ==
    [api_key_id |-> row.api_key_id, account_id |-> row.account_id, trace_id |-> row.trace_id,
     parent_id |-> row.parent_id, provider |-> row.provider, model |-> row.model,
     prompt |-> row.prompt, original_request |-> row.original_request]

C35_CompleteKeepsOwnerAndTrace ==
    [][\A auth \in {Bearer(KeyOpenAI), Bearer(KeyAnthropic)}, target \in 1..MaxCalls,
          body \in ProxyCompleteBodies :
          (resp'.op = "complete" /\ resp'.code = 200 /\ CompleteTask(auth, target, body))
              => \A i \in TaskIds :
                    IF i = target
                    THEN [KeptByComplete(tasks'[i]) EXCEPT !.model = <<>>, !.prompt = <<>>]
                            = [KeptByComplete(tasks[i]) EXCEPT !.model = <<>>, !.prompt = <<>>]
                    ELSE tasks'[i] = tasks[i]]_vars

\* C36: a request authenticated as one owner (a legacy key or an account)
\* for a span whose owner columns name another owner is answered 404 by
\* complete, retry, replay and GET /api/tasks/:id, the span is not among
\* the rows GET /api/tasks returns, and no stored field of any span changes.
C36_OtherOwnersSpanOutOfReach ==
    [][\A auth \in OwnerAuths, target \in TaskIds :
          ~CallerOwns(auth, tasks[target])
          => /\ \A body \in CompleteBodies :
                   (resp'.op = "complete" /\ resp'.id = target /\ CompleteBodyValid(body) /\ CompleteTask(auth, target, body))
                   => resp'.code = 404 /\ tasks' = tasks
             /\ (resp'.op = "retry" /\ resp'.id = target /\ Retry(auth, target, <<>>))
                   => resp'.code = 404 /\ tasks' = tasks
             /\ ((resp'.op = "replay" \/ Len(tasks') > Len(tasks)) /\ ReplayStart(auth, target, <<>>))
                   => resp'.code = 404 /\ tasks' = tasks
             /\ (resp'.op = "task" /\ resp'.id = target /\ GetTask(auth, target))
                   => resp'.code = 404 /\ tasks' = tasks
             /\ \A page \in ListPages :
                   (resp'.op = "list" /\ ListTasks(auth, page[1], page[2]))
                   => target \notin SeqRange(resp'.rows) /\ tasks' = tasks]_vars

\* two accounts hold a span each in the same trace, and the second account
\* has just asked for the first one's span and for the list
C36_Witness ==
    /\ Len(tasks) = 2 /\ Len(accounts) = 2
    /\ tasks[1].account_id = accounts[1].id
    /\ tasks[2].account_id = accounts[2].id
    /\ \/ resp = [op |-> "task", id |-> 1, code |-> 404]
       \/ resp = [op |-> "list", id |-> NULLID, code |-> 200, rows |-> <<2>>]

\* C37: every proxy call that passed validation (its span is stored and its
\* fetch is under way) eventually has its response completed, a JSON body
\* sent or the stream ended, when the upstream eventually responds, ends its
\* stream or fails.
C37_ResponseEventuallyCompleted ==
    \A id \in 1..MaxCalls :
        (id \in TaskIds /\ calls[id].pc # "none") ~> (id \in TaskIds /\ calls[id].ended)

\* the same of the calls of POST /v1/messages, and of every call once its
\* handler has returned without having written a line
C37_MessagesResponseEventuallyCompleted ==
    \A id \in 1..MaxCalls :
        /\ (id \in TaskIds /\ calls[id].endpoint = "messages") ~> (id \in TaskIds /\ calls[id].ended)
        /\ (id \in TaskIds /\ calls[id].pc = "done" /\ calls[id].acc.out = <<>>)
              ~> (id \in TaskIds /\ calls[id].ended)

\* the spans retry and replay stored: in SpecLineage the caller logs
\* finished spans only, so a 'pending' span is a retry's
ByRetryOrReplay(i) == tasks[i].status = "pending" \/ calls[i].endpoint = "replay"

\* C38: the span a retry or a replay stores carries a trace_id that its
\* parent does not carry and no span stored before carries; whenever a trace
\* is assembled afterwards, such a span is among the roots if it is among
\* the spans returned, and it is not among the spans returned for the trace
\* of its parent.
C38_DerivedSpanOpensItsOwnTrace ==
    [][/\ (/\ Len(tasks') = Len(tasks) + 1
           /\ \/ resp'.op = "retry" /\ resp' # resp
              \/ calls'[Len(tasks')].endpoint = "replay")
          => /\ tasks'[Len(tasks')].parent_id \in TaskIds
             /\ tasks'[Len(tasks')].trace_id # tasks[tasks'[Len(tasks')].parent_id].trace_id
             /\ \A i \in TaskIds : tasks[i].trace_id # tasks'[Len(tasks')].trace_id
       /\ \A traceId \in StoredTraces :
            (resp'.op = "trace" /\ GetTrace(Bearer(KeyOpenAI), traceId))
            => /\ resp'.code = 200
               /\ \A i \in TaskIds :
                     ByRetryOrReplay(i)
                     => /\ i \in SeqRange(resp'.spans) => CountIn(resp'.tree, i) = 1
                        /\ tasks[tasks[i].parent_id].trace_id = traceId
                              => i \notin SeqRange(resp'.spans)]_vars

\* span 1 was retried or replayed, a span was then logged into the trace
\* of the new span with the new span as its parent, and that trace was
\* assembled: the new span is its root
C38_Witness ==
    /\ Len(tasks) = 3
    /\ ByRetryOrReplay(2) /\ tasks[2].parent_id = 1
    /\ tasks[3].trace_id = tasks[2].trace_id /\ tasks[3].parent_id = 2
    /\ resp.op = "trace" /\ resp.id = tasks[2].trace_id /\ resp.code = 200
    /\ resp.tree = <<2>> /\ resp.children[2] = <<3>>

\* C39: no step of complete, retry, replay or a proxy call changes a stored
\* field of a span whose status is 'pending', whether a retry stored it or
\* POST /api/track did; a complete on such a span that passes the
\* middleware and the body checks is answered 404.
C39_PendingSpanNeverChanges ==
    [][/\ \A i \in TaskIds : tasks[i].status = "pending" => tasks'[i] = tasks[i]
       /\ \A target \in TaskIds, body \in CompleteBodies :
            (/\ resp'.op = "complete"
             /\ tasks[target].status = "pending"
             /\ CompleteBodyValid(body)
             /\ CompleteTask(Bearer(KeyOpenAI), target, body))
            => resp'.code = 404]_vars

\* a logged pending span and its retry, the retry just refused by complete,
\* next to a proxy call that has ended
C39_Witness ==
    /\ Len(tasks) = 3
    /\ tasks[1].status = "pending" /\ tasks[1].parent_id = NULLID
    /\ tasks[2].status = "pending" /\ tasks[2].parent_id = 1
    /\ calls[3].pc = "done"
    /\ resp = [op |-> "complete", id |-> 2, code |-> 404]

\* the rows of one owner's template of one name
VersionsOf(apiKeyId, accountId, name) ==
    {p \in 1..Len(prompt_templates) :
        /\ prompt_templates[p].api_key_id = apiKeyId
        /\ prompt_templates[p].account_id = accountId
        /\ prompt_templates[p].name = name}

\* at most one row of the set is active, an active row carries the highest
\* version of the set, and the versions are 1..n, each once
WellVersioned(rows) ==
    /\ Cardinality({p \in rows : prompt_templates[p].is_active = 1}) <= 1
    /\ \A p \in rows :
          prompt_templates[p].is_active = 1
          => \A q \in rows : prompt_templates[q].version <= prompt_templates[p].version
    /\ {prompt_templates[p].version : p \in rows} = 1..Cardinality(rows)

\* C40: after any sequence of POST /api/prompts calls, for each owner and
\* template name at most one version is active, the active version is the
\* one with the highest version number, and the version numbers stored for
\* the name are exactly 1..n with no gaps or duplicates.
C40_VersionsAreGapless ==
    \A p \in 1..Len(prompt_templates) :
        WellVersioned(VersionsOf(prompt_templates[p].api_key_id, prompt_templates[p].account_id,
                                 prompt_templates[p].name))

\* every template with a stored version has exactly one active version
OneActiveEach ==
    \A p \in 1..Len(prompt_templates) :
        \E q \in VersionsOf(prompt_templates[p].api_key_id, prompt_templates[p].account_id,
                             prompt_templates[p].name) : prompt_templates[q].is_active = 1

\* a call answered 200, made when every template is well versioned and has
\* its active version, leaves the table so
C40_AnsweredCallsKeepVersions ==
    [][(/\ C40_VersionsAreGapless /\ OneActiveEach
        /\ resp'.op = "prompt" /\ resp'.code = 200 /\ prompt_templates' # prompt_templates)
       => (C40_VersionsAreGapless /\ OneActiveEach)']_vars

====
